---- MODULE Spec2Model ----

(***************************************************************************)
(* Multi-provider AI orchestration layer of Vibe Creation Studio:          *)
(* provider adapters and registry (services/providers, modelRegistry.ts),  *)
(* the task router (selectBestModel), the generation entry points          *)
(* (generateWithBestModel, generateWithFallback) and the agent workflow    *)
(* (runMultiAgentWorkflow).                                                *)
(***************************************************************************)
EXTENDS Integers, Sequences, FiniteSets, TLC

(***************************************************************************)
(* Vendors, credentials, registry tables                                   *)
(***************************************************************************)

\* enum ModelProvider
ModelProvider == {"gemini", "groq", "deepseek", "mistral", "openrouter", "huggingface"}

\* order in which providers/index.ts imports (constructs and registers) the adapters
ImportOrder == <<"gemini", "groq", "deepseek", "mistral", "huggingface", "openrouter">>

\* value of an adapter's VITE_*_API_KEY variable: unset/empty, the template
\* value of the example env file ("your_..._api_key_here"), or a real key
Credentials == {"absent", "placeholder", "key"}

\* type TaskType
TaskType == {"planning", "writing", "editing", "critique", "synthesis",
             "image_generation", "quick_response"}

\* MODEL_REGISTRY: the vendor of each entry, in table order
RegistryProvider == <<"gemini", "gemini", "groq", "groq", "deepseek", "mistral", "mistral">>

\* MODEL_REGISTRY: the isAvailable flag each entry is declared with
RegistryInitial == <<TRUE, TRUE, FALSE, FALSE, FALSE, FALSE, FALSE>>

\* TASK_MODEL_PRIORITY
TASK_MODEL_PRIORITY == [t \in TaskType |->
    CASE t = "planning"         -> <<"deepseek", "gemini", "mistral">>
      [] t = "writing"          -> <<"mistral", "deepseek", "gemini">>
      [] t = "editing"          -> <<"groq", "mistral", "gemini">>
      [] t = "critique"         -> <<"deepseek", "gemini", "mistral">>
      [] t = "synthesis"        -> <<"deepseek", "gemini", "mistral">>
      [] t = "image_generation" -> <<"gemini">>
      [] t = "quick_response"   -> <<"groq", "gemini", "mistral">>]

(***************************************************************************)
(* Sequence helpers                                                        *)
(***************************************************************************)

\* Array.prototype.includes
Includes(s, x) == \E i \in 1..Len(s) : s[i] = x

\* Array.prototype.filter, keeping order
RECURSIVE FilterSeq(_, _)
FilterSeq(s, keep) ==
    IF s = <<>> THEN <<>>
    ELSE IF Head(s) \in keep THEN <<Head(s)>> \o FilterSeq(Tail(s), keep)
         ELSE FilterSeq(Tail(s), keep)

\* new Set(); forEach(add); Array.from: first occurrence of each element, in order
RECURSIVE DedupInto(_, _)
DedupInto(acc, s) ==
    IF s = <<>> THEN acc
    ELSE IF Includes(acc, Head(s)) THEN DedupInto(acc, Tail(s))
         ELSE DedupInto(Append(acc, Head(s)), Tail(s))

Range(s) == {s[i] : i \in 1..Len(s)}

(***************************************************************************)
(* State                                                                   *)
(***************************************************************************)

VARIABLES
    env,                \* import.meta.env: credential of every vendor
    loaded,             \* number of adapter modules of ImportOrder evaluated so far
    apiKey,             \* per adapter: apiKey field (client handle for Gemini); "null" when unset
    providerInstances,  \* the registry Map, as its keys in insertion order
    isAvailable,        \* MODEL_REGISTRY[i].isAvailable
    sel,                \* last selectBestModel call: its arguments and result
    behaviour,          \* how each vendor's endpoint answers generateText
    call,               \* the generation call issued by the host: its frame and outcome
    run,                \* the runMultiAgentWorkflow call issued by the host: its frame
    synth,              \* the synthesizeInputs call issued by the host: its frame
    parse,              \* a safeParseJSON call: its arguments and what it returned
    adapter,            \* a generateText call on one adapter: its frame
    runs,               \* two runMultiAgentWorkflow calls in flight together: their frames
    host                \* the App component: the active project's blocks and the run handler's closure

vars == <<env, loaded, apiKey, providerInstances, isAvailable, sel, behaviour, call, run, synth, parse, adapter, runs, host>>
registryVars == <<env, loaded, apiKey, providerInstances, isAvailable>>

(***************************************************************************)
(* Provider adapters                                                       *)
(***************************************************************************)

\* the constructor's test before it calls updateModelAvailability(name, true)
ConstructorMarksAvailable(v, cred) ==
    CASE v = "gemini"      -> cred = "key"          \* apiKey && !apiKey.includes('your_')
      [] v = "huggingface" -> cred # "absent"       \* if (this.apiKey)
      [] OTHER             -> cred # "absent"       \* apiKey && apiKey !== ''

\* the value the constructor leaves in apiKey (Gemini: whether a client was built)
ConstructorKey(v, cred) ==
    IF v = "gemini" THEN (IF cred = "key" THEN "key" ELSE "null")
    ELSE IF cred = "absent" THEN "null" ELSE cred

\* isConfigured() of the adapter of vendor v holding key k
isConfigured(v, k) ==
    CASE v = "gemini"      -> k # "null"                      \* client !== null
      [] v = "huggingface" -> k # "null" /\ k # "placeholder" \* !== 'your_huggingface_api_key_here'
      [] v = "openrouter"  -> k # "null" /\ k # "placeholder" \* !apiKey.includes('your_')
      [] OTHER             -> k # "null"                      \* !== null && !== ''

\* updateModelAvailability(provider, flag) applied to the flags avail
updateModelAvailability(avail, provider, flag) ==
    [i \in DOMAIN avail |-> IF RegistryProvider[i] = provider THEN flag ELSE avail[i]]

\* getAvailableProviders(): configured adapters in Map iteration order
getAvailableProviders(instances, keys) ==
    FilterSeq(instances, {v \in ModelProvider : isConfigured(v, keys[v])})

\* getAvailableProviders() in the current state
Available == getAvailableProviders(providerInstances, apiKey)

(***************************************************************************)
(* Task router                                                             *)
(***************************************************************************)

\* MODEL_REGISTRY.find(m => m.provider === p && m.isAvailable): index, 0 when none
FindModel(avail, p) ==
    LET hits == {i \in DOMAIN avail : RegistryProvider[i] = p /\ avail[i]}
    IN IF hits = {} THEN 0 ELSE CHOOSE i \in hits : \A j \in hits : i <= j

\* first element of list (in order) for which FindModel succeeds, as a model index; 0 when none
RECURSIVE FirstModel(_, _, _)
FirstModel(avail, list, among) ==
    IF list = <<>> THEN 0
    ELSE IF Head(list) \in among /\ FindModel(avail, Head(list)) # 0
         THEN FindModel(avail, Head(list))
         ELSE FirstModel(avail, Tail(list), among)

\* selectBestModel without its second loop
selectBestModel_PreferredOnly(avail, taskType, availableProviders) ==
    FirstModel(avail, TASK_MODEL_PRIORITY[taskType], Range(availableProviders))

\* selectBestModel(taskType, availableProviders): model index, 0 for null
selectBestModel(avail, taskType, availableProviders) ==
    LET preferred == FirstModel(avail, TASK_MODEL_PRIORITY[taskType], Range(availableProviders))
    IN IF preferred # 0 THEN preferred
       ELSE FirstModel(avail, availableProviders, ModelProvider)

(***************************************************************************)
(* Vendor responses                                                        *)
(***************************************************************************)

\* A model text is a sequence of tokens: a run of whitespace, an opening
\* fence of three backticks followed by json, a bare fence of three backticks, a run of prose, or a well-formed JSON
\* document carrying its value.
WS        == [tok |-> "ws"]
FenceJson == [tok |-> "fence-json"]
Fence     == [tok |-> "fence"]
Prose     == [tok |-> "prose"]
Doc(v)    == [tok |-> "doc", json |-> v]

\* text && text.trim(): the text has a visible character
NonBlank(text) == \E i \in 1..Len(text) : text[i] # WS

\* An error message is the sequence of its words.
\* errMsg.includes('overload') || errMsg.includes('429') || errMsg.includes('rate')
IsRateLimited(msg) == Includes(msg, "overload") \/ Includes(msg, "429") \/ Includes(msg, "rate")

\* messages of the errors generateText raises in the model
ErrorMessages == {<<"API", "error:", "500">>, <<"API", "error:", "429">>}

\* texts a vendor returns to a plain generation call
PlainTexts == {<<>>, <<WS>>, <<Prose>>}

TextResponse(text) == [kind |-> "text", text |-> text, msg |-> <<>>]
ThrowResponse(msg) == [kind |-> "throw", text |-> <<>>, msg |-> msg]

\* what generateText of a vendor that answers freely may do in one attempt
AnyResponses(texts) ==
    {TextResponse(t) : t \in texts} \cup {ThrowResponse(m) : m \in ErrorMessages}

\* what generateText of vendor v may do in one attempt, given the texts it can produce
Responses(v, texts) ==
    CASE behaviour[v] = "ok"    -> {TextResponse(t) : t \in {x \in texts : NonBlank(x)}}
      [] behaviour[v] = "throw" -> {ThrowResponse(m) : m \in ErrorMessages}
      [] OTHER                  -> AnyResponses(texts)

(***************************************************************************)
(* Adapters: generateText                                                  *)
(***************************************************************************)

\* largest number of requests one generateText call is followed through
MaxRequests == 3

\* what the awaited request of an adapter settles with: a success response and
\* the text in it, a response with a non-success status, or a transport error
\* (for Gemini: the SDK call resolving or throwing)
OkResponse(text)       == [kind |-> "ok", status |-> 200, text |-> text]
StatusResponse(status) == [kind |-> "status", status |-> status, text |-> <<>>]
TransportError         == [kind |-> "transport", status |-> 0, text |-> <<>>]
NoResponse             == [kind |-> "none", status |-> 0, text |-> <<>>]

HttpResponses ==
    {OkResponse(t) : t \in PlainTexts}
    \cup {StatusResponse(s) : s \in {401, 429, 500, 503}}
    \cup {TransportError}

\* the frame of a generateText call: st is idle, fetching (the request is
\* awaited), waiting (the 5000 ms timer is awaited), returned or thrown
IdleAdapter ==
    [vendor |-> "none", st |-> "idle", requests |-> 0, response |-> NoResponse, text |-> <<>>]

\* entry of generateText up to its await: the configuration test, then the request
EnterGenerateText(a, v, key) ==
    IF ~isConfigured(v, key) THEN [a EXCEPT !.vendor = v, !.st = "thrown"]
    ELSE [a EXCEPT !.vendor = v, !.st = "fetching", !.requests = @ + 1]

\* the awaited request settles with r: a 503 makes the Hugging Face adapter
\* wait; any other failure is thrown (and rethrown by the catch block)
ResponseSettles(a, r) ==
    LET a1 == [a EXCEPT !.response = r] IN
    IF r.kind = "ok" THEN [a1 EXCEPT !.st = "returned", !.text = r.text]
    ELSE IF r.kind = "status" /\ r.status = 503 /\ a.vendor = "huggingface"
    THEN [a1 EXCEPT !.st = "waiting"]
    ELSE [a1 EXCEPT !.st = "thrown"]

\* the 5000 ms timer fires: return this.generateText(prompt, options)
DelayElapses(a, key) == EnterGenerateText(a, a.vendor, key)

(***************************************************************************)
(* JSON values and the tolerant parser                                     *)
(***************************************************************************)

\* JavaScript values JSON.parse can return, and undefined
JNull      == [type |-> "null"]
JUndefined == [type |-> "undefined"]
JStr(s)    == [type |-> "string", s |-> s]       \* s: the sequence of its words
JNum(n)    == [type |-> "number", n |-> n]
JBool(b)   == [type |-> "boolean", b |-> b]
JArr(a)    == [type |-> "array", items |-> a]
JObj(f)    == [type |-> "object", fields |-> f]

\* the outcome of evaluating an expression: a value, or a thrown TypeError
Value(v)  == [threw |-> FALSE, v |-> v]
TypeError == [threw |-> TRUE, v |-> JUndefined]

\* v.name: throws on null and undefined, undefined when the property is missing
Get(v, name) ==
    IF v.type \in {"null", "undefined"} THEN TypeError
    ELSE IF v.type = "object" /\ name \in DOMAIN v.fields THEN Value(v.fields[name])
    ELSE Value(JUndefined)

\* ToBoolean
Truthy(v) ==
    CASE v.type \in {"null", "undefined"} -> FALSE
      [] v.type = "string"  -> v.s # <<>>
      [] v.type = "number"  -> v.n # 0
      [] v.type = "boolean" -> v.b
      [] OTHER              -> TRUE

\* s with its leading whitespace tokens removed
RECURSIVE DropLeadingWS(_)
DropLeadingWS(text) ==
    IF text # <<>> /\ Head(text) = WS THEN DropLeadingWS(Tail(text)) ELSE text

\* s with its trailing whitespace tokens removed
RECURSIVE DropTrailingWS(_)
DropTrailingWS(text) ==
    IF text # <<>> /\ text[Len(text)] = WS
    THEN DropTrailingWS(SubSeq(text, 1, Len(text) - 1)) ELSE text

\* text.replace(/^FENCEjson\s*/, '') with FENCE the three backticks
StripJsonFence(text) ==
    IF text # <<>> /\ Head(text) = FenceJson THEN DropLeadingWS(Tail(text)) ELSE text

\* text.replace(/^FENCE\s*/, '')
StripOpeningFence(text) ==
    IF text # <<>> /\ Head(text) = Fence THEN DropLeadingWS(Tail(text)) ELSE text

\* text.replace(/\s*FENCE$/, ''): $ matches at the very end of the text only
StripClosingFence(text) ==
    IF text # <<>> /\ text[Len(text)] = Fence
    THEN DropTrailingWS(SubSeq(text, 1, Len(text) - 1)) ELSE text

\* String.prototype.trim
Trim(text) == DropTrailingWS(DropLeadingWS(text))

\* JSON.parse: the text must be one JSON document
JSONParse(text) ==
    IF Len(text) = 1 /\ text[1].tok = "doc" THEN Value(text[1].json) ELSE TypeError

\* safeParseJSON(text, fallback)
safeParseJSON(text, fallback) ==
    IF text = <<>> THEN fallback
    ELSE LET cleanText == Trim(StripClosingFence(StripOpeningFence(StripJsonFence(text))))
             parsed == JSONParse(cleanText)
         IN IF parsed.threw THEN fallback ELSE parsed.v

(***************************************************************************)
(* Generation calls: generateWithFallback and generateWithBestModel        *)
(***************************************************************************)

\* MODEL_REGISTRY: displayName of each entry
RegistryDisplayName == <<"Gemini 2.5 Flash", "Gemini 1.5 Pro", "Llama 3.3 70B (Groq)",
                         "Mixtral 8x7B (Groq)", "DeepSeek V3", "Mistral Large", "Mistral Small">>

\* a call frame: st is idle, running (an attempt on order[idx] is awaited),
\* backoff (the 1000 ms timer is awaited), resolved or rejected
IdleCall ==
    [fn |-> "none", st |-> "idle", task |-> "none", preferred |-> <<>>,
     order |-> <<>>, idx |-> 0, attempt |-> 0, errors |-> <<>>, attempts |-> <<>>,
     text |-> <<>>, provider |-> "none", used |-> "none", error |-> "none"]

Finished(c) == c.st \in {"resolved", "rejected"}

\* the configured vendors first, the preferred ones after them
TryOrder_AvailableFirst(preferredProviders, available) ==
    DedupInto(DedupInto(<<>>, available), FilterSeq(preferredProviders, Range(available)))

\* const tryOrderSet = new Set(); preferred.filter(available).forEach(add); available.forEach(add)
TryOrder(preferredProviders, available) ==
    DedupInto(DedupInto(<<>>, FilterSeq(preferredProviders, Range(available))), available)

\* entry of generateWithFallback up to its first await (getProvider never
\* misses: every name in tryOrder is a key of providerInstances)
StartFallback(preferredProviders, available) ==
    LET frame == [IdleCall EXCEPT !.fn = "fallback", !.preferred = preferredProviders] IN
    IF Len(available) = 0
    THEN [frame EXCEPT !.st = "rejected", !.error = "NoProviders"]
    ELSE [frame EXCEPT !.st = "running", !.order = TryOrder(preferredProviders, available),
                       !.idx = 1, !.attempt = 1]

\* generateWithBestModel without the test of available.length
StartBest_NoEmptyTest(avail, taskType, preferredProvider, available) ==
    LET frame == [IdleCall EXCEPT !.fn = "best", !.task = taskType,
                      !.preferred = IF preferredProvider = "none" THEN <<>>
                                    ELSE <<preferredProvider>>]
        bestModel == selectBestModel(avail, taskType, available) IN
    IF bestModel = 0
    THEN [frame EXCEPT !.st = "rejected", !.error = "NoSuitableModel"]
    ELSE [frame EXCEPT !.st = "running", !.order = <<RegistryProvider[bestModel]>>,
                       !.idx = 1, !.attempt = 1]

\* entry of generateWithBestModel up to its await
StartBest(avail, taskType, preferredProvider, available) ==
    LET frame == [IdleCall EXCEPT !.fn = "best", !.task = taskType,
                      !.preferred = IF preferredProvider = "none" THEN <<>>
                                    ELSE <<preferredProvider>>] IN
    IF Len(available) = 0
    THEN [frame EXCEPT !.st = "rejected", !.error = "NoProviders"]
    ELSE IF preferredProvider # "none" /\ Includes(available, preferredProvider)
    THEN [frame EXCEPT !.st = "running", !.order = <<preferredProvider>>,
                       !.idx = 1, !.attempt = 1]
    ELSE LET bestModel == selectBestModel(avail, taskType, available) IN
         IF bestModel = 0
         THEN [frame EXCEPT !.st = "rejected", !.error = "NoSuitableModel"]
         ELSE [frame EXCEPT !.st = "running", !.order = <<RegistryProvider[bestModel]>>,
                            !.idx = 1, !.attempt = 1]

\* the for-loops with three attempts per vendor
Advance_ThreeAttempts(c) ==
    IF c.attempt < 3 THEN [c EXCEPT !.st = "running", !.attempt = c.attempt + 1]
    ELSE IF c.idx < Len(c.order)
         THEN [c EXCEPT !.st = "running", !.idx = c.idx + 1, !.attempt = 1]
         ELSE [c EXCEPT !.st = "rejected", !.error = "AllFailed"]

\* the for-loops of generateWithFallback moving past the current attempt
Advance(c) ==
    IF c.attempt < 2 THEN [c EXCEPT !.st = "running", !.attempt = c.attempt + 1]
    ELSE IF c.idx < Len(c.order)
         THEN [c EXCEPT !.st = "running", !.idx = c.idx + 1, !.attempt = 1]
         ELSE [c EXCEPT !.st = "rejected", !.error = "AllFailed"]

\* model?.displayName || targetProvider of generateWithBestModel
ModelUsed(targetProvider) ==
    LET hits == {i \in DOMAIN RegistryProvider : RegistryProvider[i] = targetProvider}
    IN IF hits = {} THEN targetProvider
       ELSE RegistryDisplayName[CHOOSE i \in hits : \A j \in hits : i <= j]

\* the awaited generateText of a running call settles with response r
AttemptSettles(c, r) ==
    LET providerName == c.order[c.idx]
        outcome == IF r.kind = "throw" THEN "throw"
                   ELSE IF NonBlank(r.text) THEN "text" ELSE "blank"
        c1 == [c EXCEPT !.attempts = Append(c.attempts,
                   [provider |-> providerName, attempt |-> c.attempt, outcome |-> outcome])]
    IN IF c.fn = "best"
       THEN IF r.kind = "text"
            THEN [c1 EXCEPT !.st = "resolved", !.text = r.text, !.provider = providerName,
                            !.used = ModelUsed(providerName)]
            ELSE [c1 EXCEPT !.st = "rejected", !.error = "VendorError",
                            !.errors = <<[provider |-> providerName, msg |-> r.msg]>>]
       ELSE IF r.kind = "text"
            THEN IF NonBlank(r.text)
                 THEN [c1 EXCEPT !.st = "resolved", !.text = r.text, !.provider = providerName,
                                 !.used = providerName]
                 ELSE Advance(c1)
            ELSE LET c2 == [c1 EXCEPT !.errors = Append(c1.errors,
                                          [provider |-> providerName, msg |-> r.msg])]
                 IN IF IsRateLimited(r.msg) THEN [c2 EXCEPT !.st = "backoff"] ELSE Advance(c2)

\* the awaited setTimeout(r, 1000) of a call in backoff fires
BackoffElapses(c) == Advance(c)

(***************************************************************************)
(* Agent workflow: runMultiAgentWorkflow                                   *)
(***************************************************************************)

\* longest plan (architect task list, blueprint section list) explored
MaxTasks == 2

\* String.prototype.toLowerCase on the words used in the model
LowerCase(word) ==
    CASE word = "Chapter" -> "chapter"
      [] word = "Write"   -> "write"
      [] word = "Preface" -> "preface"
      [] OTHER            -> word

\* str.toLowerCase().includes('chapter')
MentionsChapter(words) == \E i \in 1..Len(words) : LowerCase(words[i]) = "chapter"

\* tasks the architect may put in a plan: a writer task whose title names a
\* chapter, a writer task that names none, a task for another agent, and a
\* null entry
ArchitectTask(role, description, title) ==
    JObj([role |-> JStr(<<role>>), description |-> JStr(description),
          context_script |-> JStr(<<"script">>), title |-> title])

ChapterTask == ArchitectTask("WRITER", <<"Write", "the", "storm">>, JStr(<<"Chapter", "two">>))
PrefaceTask == ArchitectTask("WRITER", <<"Write", "the", "preface">>, JUndefined)
EditorTask  == ArchitectTask("EDITOR", <<"Polish", "the", "draft">>, JUndefined)

ArchitectTasks == {ChapterTask, PrefaceTask, EditorTask, JNull}

\* all sequences over S of length at most n
RECURSIVE SeqsUpTo(_, _)
SeqsUpTo(S, n) ==
    IF n = 0 THEN {<<>>}
    ELSE LET shorter == SeqsUpTo(S, n - 1)
         IN shorter \cup {Append(q, x) : q \in {t \in shorter : Len(t) = n - 1}, x \in S}

\* a JSON text as models emit it: bare, or inside a json code fence
Bare(v)   == <<Doc(v)>>
Fenced(v) == <<FenceJson, WS, Doc(v), WS, Fence>>

\* texts the vendors return to the architect call
ArchitectTexts ==
    {Bare(JObj([tasks |-> JArr(q)])) : q \in SeqsUpTo(ArchitectTasks, MaxTasks)}
    \cup {Fenced(JObj([tasks |-> JArr(<<ChapterTask>>)])),
          Bare(JObj(<<>>)), Bare(JObj([tasks |-> JStr(<<"none">>)])), Bare(JNull),
          <<Prose>>, <<>>, <<WS>>}

\* texts the vendors return to the visionary call
VisionaryTexts ==
    {Bare(JObj([style_guide |-> JStr(<<"noir">>), sensory_palette |-> JStr(<<"rain">>)])),
     Bare(JNull), <<Prose>>, <<>>, <<WS>>}

\* texts the vendors return to a writer call
WriterTexts ==
    {Bare(JObj([content |-> JStr(<<"Once">>), helper_script |-> JStr(<<"notes">>)])),
     Fenced(JObj([content |-> JStr(<<"Twice">>)])),
     Bare(JObj([content |-> JArr(<<JStr(<<"Twice">>)>>)])),
     Bare(JObj([content |-> JStr(<<>>)])),
     Bare(JObj([content |-> JNum(0)])),
     Bare(JObj(<<>>)), Bare(JNull), <<Prose>>, <<>>, <<WS>>}

\* texts the vendors return to the critic call
CriticTexts ==
    {Bare(JObj([approved |-> JBool(TRUE)])),
     Fenced(JObj([approved |-> JBool(FALSE), critique |-> JStr(<<"flat">>)])),
     Bare(JNull), <<Prose>>, <<>>, <<WS>>}

\* texts the vendors return to the consistency call
ConsistencyTexts ==
    {Bare(JObj([status |-> JStr(<<"pass">>)])),
     Bare(JObj([status |-> JStr(<<"fail">>), issues |-> JArr(<<JStr(<<"name">>)>>)])),
     Bare(JNull), <<Prose>>, <<>>, <<WS>>}

\* the generation calls of a run, by the agent they serve
Slots == {"architect", "visionary", "writer", "critic", "consistency"}

TextsOf(slot) ==
    CASE slot = "architect"   -> ArchitectTexts
      [] slot = "visionary"   -> VisionaryTexts
      [] slot = "writer"      -> WriterTexts
      [] slot = "critic"      -> CriticTexts
      [] slot = "consistency" -> ConsistencyTexts

\* the preferredProviders argument of each generateWithFallback call of the run
PreferredOf(slot) ==
    CASE slot = "architect"   -> <<"deepseek", "gemini", "mistral">>
      [] slot = "visionary"   -> <<"gemini", "groq", "mistral">>
      [] slot = "writer"      -> <<"mistral", "deepseek", "gemini", "groq">>
      [] slot = "critic"      -> <<"groq", "gemini", "deepseek">>
      [] slot = "consistency" -> <<"gemini", "deepseek">>

\* every frame a set of running calls can end in, for vendors answering freely
\* with texts
RECURSIVE SettleAll(_, _)
SettleAll(frames, texts) ==
    LET open == {f \in frames : ~Finished(f)} IN
    IF open = {} THEN frames
    ELSE SettleAll(
            (frames \ open) \cup UNION {
                IF f.st = "backoff" THEN {BackoffElapses(f)}
                ELSE {AttemptSettles(f, r) : r \in AnyResponses(texts)}
                : f \in open},
            texts)

\* the vendors named in a list of errors, each once, without the messages
RECURSIVE VendorsNamed(_)
VendorsNamed(errors) ==
    IF errors = <<>> THEN <<>>
    ELSE LET rest == VendorsNamed(Tail(errors))
             first == [provider |-> Head(errors).provider, msg |-> <<>>]
         IN IF Includes(rest, first) THEN rest ELSE <<first>> \o rest

\* what the workflow reads of a settled call: text and provider of a result;
\* of a failure only that it failed (and, kept here, which vendors had thrown)
Outcome(c) ==
    IF c.st = "resolved" THEN [c EXCEPT !.errors = <<>>, !.attempts = <<>>]
    ELSE [c EXCEPT !.errors = VendorsNamed(c.errors), !.attempts = <<>>]

\* the outcomes the running call c can settle with
Outcomes(c, texts) == {Outcome(f) : f \in SettleAll({c}, texts)}

\* project.blueprint.sections entries: a chapter whose title names a chapter,
\* a chapter whose title and description do not, and a scene
BlueprintSections ==
    {[type |-> "chapter", title |-> <<"Chapter", "one">>, description |-> <<"the", "storm">>],
     [type |-> "chapter", title |-> <<"Prologue">>, description |-> <<"the", "calm">>],
     [type |-> "scene", title |-> <<"Interlude">>, description |-> <<"the", "road">>]}

\* the Project argument: whether it carries a blueprint, its sections and persona
\* (an absent blueprint has no persona: getPersonaById falls back to the first)
NoBlueprint == [hasBlueprint |-> FALSE, sections |-> <<>>, personaId |-> "standard_vibe"]

\* (the second persona is explored with the one-section blueprints)
Projects ==
    {NoBlueprint}
    \cup {[hasBlueprint |-> TRUE, sections |-> q, personaId |-> "standard_vibe"] :
            q \in SeqsUpTo(BlueprintSections, MaxTasks)}
    \cup {[hasBlueprint |-> TRUE, sections |-> <<sec>>, personaId |-> "noir_detective"] :
            sec \in BlueprintSections}

\* the frame of one runMultiAgentWorkflow call
IdleRun ==
    [pc |-> "idle", project |-> NoBlueprint, plan |-> <<>>, styleContext |-> "",
     taskIndex |-> 0, chapterNumber |-> 1, contentStr |-> <<>>, writerProvider |-> "none",
     newBlocks |-> <<>>,
     logs |-> <<>>, calls |-> [slot \in Slots |-> IdleCall]]

\* log(agent, message, metadata, status, modelUsed) handing an entry to onLog
Log(R, agent, message, status) ==
    [R EXCEPT !.logs = Append(@, [agent |-> agent, message |-> message, status |-> status])]

\* a catch block that hands back an empty list
Catch_DropsDrafts(R) ==
    [Log(R, "PROJECT_MANAGER", "Workflow encountered an error.", "failed")
        EXCEPT !.pc = "done", !.newBlocks = <<>>]

\* a catch block that lets the exception out: the promise of the run rejects
Catch_Rethrows(R) == [R EXCEPT !.pc = "rejected"]

\* catch (error) { log(...'failed') }  return newBlocks
Catch(R) ==
    [Log(R, "PROJECT_MANAGER", "Workflow encountered an error.", "failed") EXCEPT !.pc = "done"]

\* the agent name a task's role field shows as
RoleName(role) == IF role.type = "string" /\ Len(role.s) = 1 THEN role.s[1] ELSE "undefined"

\* a generateWithFallback call of the run entered for the agent of slot
Issue(R, slot) ==
    [R EXCEPT !.calls[slot] = StartFallback(PreferredOf(slot), Available)]

\* a loop body without the role test: every task is handed to the writer
RunTasks_AnyRoleWrites(R) ==
    IF R.taskIndex > Len(R.plan) THEN [R EXCEPT !.pc = "done"]
    ELSE LET role == Get(R.plan[R.taskIndex], "role")
         IN IF role.threw THEN Catch(R)
            ELSE LET R2 == Issue(Log(R, RoleName(role.v), "Executing", "thinking"), "writer") IN
                 IF R2.calls["writer"].st = "rejected" THEN Catch(R2)
                 ELSE [R2 EXCEPT !.pc = "writing"]

\* the for-loop over plan.tasks from the current task up to the next await or the return
RECURSIVE RunTasks(_)
RunTasks(R) ==
    IF R.taskIndex > Len(R.plan) THEN [R EXCEPT !.pc = "done"]
    ELSE LET task == R.plan[R.taskIndex]
             role == Get(task, "role")
         IN IF role.threw THEN Catch(R)
            ELSE LET R1 == Log(R, RoleName(role.v), "Executing", "thinking") IN
                 IF role.v = JStr(<<"WRITER">>)
                 THEN LET R2 == Issue(R1, "writer") IN
                      IF R2.calls["writer"].st = "rejected" THEN Catch(R2)
                      ELSE [R2 EXCEPT !.pc = "writing"]
                 ELSE RunTasks([R1 EXCEPT !.taskIndex = @ + 1])

\* an execution phase whose chapter counter starts at zero
Execute_CounterFromZero(R) ==
    LET personaId == IF R.project.hasBlueprint THEN R.project.personaId ELSE "standard_vibe"
        R1 == IF personaId # "standard_vibe"
              THEN Log(R, "PROJECT_MANAGER", "Applying Agent Persona", "success") ELSE R
    IN RunTasks([R1 EXCEPT !.chapterNumber = 0, !.taskIndex = 1])

\* the start of the execution phase: counter, persona, first pass of the loop
Execute(R) ==
    LET personaId == IF R.project.hasBlueprint THEN R.project.personaId ELSE "standard_vibe"
        R1 == IF personaId # "standard_vibe"
              THEN Log(R, "PROJECT_MANAGER", "Applying Agent Persona", "success") ELSE R
    IN RunTasks([R1 EXCEPT !.chapterNumber = 1, !.taskIndex = 1])

\* a plan made of every section of the blueprint, whatever its type
BlueprintTasks_EverySection(sections) ==
    [i \in 1..Len(sections) |->
        JObj([role |-> JStr(<<"WRITER">>),
              description |-> JStr(<<"Write">> \o sections[i].title \o sections[i].description),
              context_script |-> JStr(<<"Structure", "this", "as", "a", sections[i].type>>),
              title |-> JStr(sections[i].title)])]

\* plan.tasks derived from the blueprint's chapter sections
RECURSIVE BlueprintTasks(_)
BlueprintTasks(sections) ==
    IF sections = <<>> THEN <<>>
    ELSE LET sec == Head(sections) IN
         (IF sec.type = "chapter"
          THEN <<JObj([role |-> JStr(<<"WRITER">>),
                       description |-> JStr(<<"Write">> \o sec.title \o sec.description),
                       context_script |-> JStr(<<"Structure", "this", "as", "a", sec.type>>),
                       title |-> JStr(sec.title)])>>
          ELSE <<>>) \o BlueprintTasks(Tail(sections))

\* runMultiAgentWorkflow from its entry to its first await (or its return)
Begin(project) ==
    LET R == [IdleRun EXCEPT !.project = project] IN
    IF project.hasBlueprint
    THEN Execute([Log(R, "ARCHITECT", "Using approved blueprint plan.", "success")
                    EXCEPT !.plan = BlueprintTasks(project.sections), !.styleContext = "Tone"])
    ELSE LET R1 == Log(Log(Log(R, "PROJECT_MANAGER", "Initiating Parallel Planning Phase...", "thinking"),
                           "ARCHITECT", "Structuring narrative arc...", "thinking"),
                       "VISIONARY", "Defining stylistic palette...", "thinking")
             R2 == Issue(Issue(R1, "architect"), "visionary")
         IN IF R2.calls["architect"].st = "rejected" \/ R2.calls["visionary"].st = "rejected"
            THEN Catch(R2)
            ELSE [R2 EXCEPT !.pc = "planning"]

\* String(v) for the values a content field holds
StringOf(v) ==
    CASE v.type = "string"  -> v.s
      [] v.type = "number"  -> <<"0">>
      [] v.type = "boolean" -> IF v.b THEN <<"true">> ELSE <<"false">>
      [] v.type \in {"null", "undefined"} -> <<>>
      [] OTHER              -> <<"[object", "Object]">>

\* Array.prototype.join('\n')
RECURSIVE Join(_)
Join(items) ==
    IF items = <<>> THEN <<>>
    ELSE IF Len(items) = 1 THEN StringOf(items[1])
    ELSE StringOf(items[1]) \o <<"\n">> \o Join(Tail(items))

\* contentStr computed from output.content
ContentString(content) ==
    IF content.type = "string" THEN content.s
    ELSE IF Truthy(content) /\ content.type = "array" THEN Join(content.items)
    ELSE IF Truthy(content) THEN StringOf(content)
    ELSE <<>>

\* the run after Promise.all of the architect and visionary calls resolves
AfterPlanning(R) ==
    LET plan == safeParseJSON(R.calls["architect"].text, JObj([tasks |-> JArr(<<>>)]))
        tasks == Get(plan, "tasks")
    IN IF tasks.threw THEN Catch(R)
       ELSE IF ~Truthy(tasks.v) \/ tasks.v.type # "array"
       THEN [Log(R, "ARCHITECT", "Failed to generate a valid plan.", "failed") EXCEPT !.pc = "done"]
       ELSE LET R1 == Log([R EXCEPT !.plan = tasks.v.items], "ARCHITECT", "Plan created", "success")
                visionaryData == safeParseJSON(R.calls["visionary"].text, JObj(<<>>))
            IN IF Get(visionaryData, "style_guide").threw THEN Catch(R1)
               ELSE Execute(Log([R1 EXCEPT !.styleContext = "VISUAL STYLE"],
                                "VISIONARY", "Style guide established.", "success"))

\* a continuation of the writer call that validates whatever was produced
AfterWriter_NoEmptyCheck(R) ==
    LET output == safeParseJSON(R.calls["writer"].text, JObj([content |-> JStr(<<>>)]))
        content == Get(output, "content")
    IN IF content.threw THEN Catch(R)
       ELSE LET R1 == Log(Log(Log([R EXCEPT !.contentStr = ContentString(content.v),
                                            !.writerProvider = R.calls["writer"].used],
                                  "WRITER", "Drafting content complete.", "success"),
                              "CRITIC", "Reviewing quality...", "thinking"),
                          "CONSISTENCY_CHECKER", "Verifying world facts...", "thinking")
                R2 == Issue(Issue(R1, "critic"), "consistency")
            IN IF R2.calls["critic"].st = "rejected" \/ R2.calls["consistency"].st = "rejected"
               THEN Catch(R2)
               ELSE [R2 EXCEPT !.pc = "validating"]

\* the run after the awaited writer call resolves
AfterWriter(R) ==
    LET output == safeParseJSON(R.calls["writer"].text, JObj([content |-> JStr(<<>>)]))
        content == Get(output, "content")
    IN IF content.threw THEN Catch(R)
       ELSE LET contentStr == ContentString(content.v) IN
            IF contentStr = <<>>
            THEN RunTasks([Log(R, "WRITER", "Failed to generate content.", "failed")
                             EXCEPT !.taskIndex = @ + 1])
            ELSE LET R1 == Log(Log(Log([R EXCEPT !.contentStr = contentStr,
                                                 !.writerProvider = R.calls["writer"].used],
                                       "WRITER", "Drafting content complete.", "success"),
                                   "CRITIC", "Reviewing quality...", "thinking"),
                               "CONSISTENCY_CHECKER", "Verifying world facts...", "thinking")
                     R2 == Issue(Issue(R1, "critic"), "consistency")
                 IN IF R2.calls["critic"].st = "rejected" \/ R2.calls["consistency"].st = "rejected"
                    THEN Catch(R2)
                    ELSE [R2 EXCEPT !.pc = "validating"]

\* isChapter of a task: a thrown TypeError, or the boolean
IsChapter(task) ==
    LET description == Get(task, "description").v
        title == Get(task, "title").v
    IN IF description.type # "string" THEN TypeError
       ELSE IF MentionsChapter(description.s) THEN Value(JBool(TRUE))
       ELSE IF title.type \in {"null", "undefined"} THEN Value(JBool(FALSE))
       ELSE IF title.type # "string" THEN TypeError
       ELSE Value(JBool(MentionsChapter(title.s)))

\* the run after Promise.all of the critic and consistency calls resolves
AfterValidation(R) ==
    LET critique == safeParseJSON(R.calls["critic"].text, JObj(<<>>))
        consistency == safeParseJSON(R.calls["consistency"].text, JObj(<<>>))
        approved == Get(critique, "approved")
        status == Get(consistency, "status")
        task == R.plan[R.taskIndex]
    IN IF approved.threw THEN Catch(R)
       ELSE LET R1 == Log(R, "CRITIC",
                          IF Truthy(approved.v) THEN "Quality: Approved" ELSE "Quality: Needs Polish",
                          "success")
            IN IF status.threw THEN Catch(R1)
               ELSE LET issues == Get(consistency, "issues").v
                        failed == status.v = JStr(<<"fail">>)
                    IN IF failed /\ issues.type \notin {"null", "undefined", "array"} THEN Catch(R1)
                       ELSE LET R2 == IF failed
                                      THEN Log(R1, "CONSISTENCY_CHECKER", "Consistency Issues Found", "warning")
                                      ELSE Log(R1, "CONSISTENCY_CHECKER", "World Consistency Verified", "success")
                                isChapter == IsChapter(task)
                            IN IF isChapter.threw THEN Catch(R2)
                               ELSE RunTasks(
                                      [R2 EXCEPT
                                         !.newBlocks = Append(@,
                                            [type |-> IF isChapter.v.b THEN "chapter" ELSE "text",
                                             content |-> R.contentStr,
                                             modelUsed |-> R.writerProvider,
                                             task |-> R.taskIndex,
                                             chapterNumber |-> IF isChapter.v.b THEN R.chapterNumber ELSE 0]),
                                         !.chapterNumber = IF isChapter.v.b THEN @ + 1 ELSE @,
                                         !.taskIndex = @ + 1])

\* a result that nothing reads any more: only that the call has settled remains
Unobserved(c) == [IdleCall EXCEPT !.fn = c.fn, !.st = c.st]

\* the run with the results of its settled calls dropped: once the
\* continuation has run, architectResult, writerResult and the like are dead
Release(R) ==
    [R EXCEPT !.calls = [slot \in Slots |->
        IF Finished(R.calls[slot]) THEN Unobserved(R.calls[slot]) ELSE R.calls[slot]]]

\* the run with the results of its resolved calls dropped: what an await that
\* throws leaves of the call it was paired with
Forget(R) ==
    [R EXCEPT !.calls = [slot \in Slots |->
        IF R.calls[slot].st = "resolved" THEN Unobserved(R.calls[slot]) ELSE R.calls[slot]]]

\* a run that resumes as soon as one call of a pair has resolved
Resume_FirstOfPair(R, slot) ==
    IF R.pc = "done" THEN Release(R)
    ELSE IF R.calls[slot].st = "rejected" THEN Catch(Forget(R))
    ELSE CASE R.pc = "planning" -> Release(AfterPlanning(R))
           [] R.pc = "writing" -> Release(AfterWriter(R))
           [] R.pc = "validating" -> Release(AfterValidation(R))
           [] OTHER -> R

\* the run when the call of slot has settled: a rejection makes the pending
\* await throw; a resolution resumes the run once everything awaited is resolved
Resume(R, slot) ==
    IF R.pc = "done" THEN Release(R)
    ELSE IF R.calls[slot].st = "rejected" THEN Catch(Forget(R))
    ELSE CASE R.pc = "planning" ->
                IF R.calls["architect"].st = "resolved" /\ R.calls["visionary"].st = "resolved"
                THEN Release(AfterPlanning(R)) ELSE R
           [] R.pc = "writing" -> Release(AfterWriter(R))
           [] R.pc = "validating" ->
                IF R.calls["critic"].st = "resolved" /\ R.calls["consistency"].st = "resolved"
                THEN Release(AfterValidation(R)) ELSE R
           [] OTHER -> R

(***************************************************************************)
(* Input synthesis: synthesizeInputs                                       *)
(***************************************************************************)

\* largest number of input items handed to one synthesis
MaxItems == 2

\* an InputItem: its type and its content, a single line given as the sequence
\* of its words (rawContent is a data URL or absent, so building the prompt
\* never throws)
GuidelineItem == [type |-> "guideline", content |-> <<"present", "tense">>]
NoteItem      == [type |-> "note", content |-> <<"rain">>]
UrlItem       == [type |-> "url", content |-> <<>>]

InputItems == {GuidelineItem, NoteItem, UrlItem}

\* the item lists of the Input Hub
ItemLists == SeqsUpTo(InputItems, MaxItems)

\* item.content?.split(/\s+/).length || 0: splitting the empty string gives one piece
WordsOf(content) == IF content = <<>> THEN 1 ELSE Len(content)

\* items.reduce((sum, item) => sum + ..., 0)
RECURSIVE TotalWordCount(_)
TotalWordCount(items) ==
    IF items = <<>> THEN 0 ELSE WordsOf(Head(items).content) + TotalWordCount(Tail(items))

\* items.filter(i => i.type === t).map(i => i.content)
RECURSIVE ContentsOf(_, _)
ContentsOf(items, t) ==
    IF items = <<>> THEN <<>>
    ELSE (IF Head(items).type = t THEN <<JStr(Head(items).content)>> ELSE <<>>)
         \o ContentsOf(Tail(items), t)

\* the outline returned for an empty item list
EmptyOutline ==
    [summary |-> JStr(<<"No", "inputs", "provided.">>),
     themes |-> JArr(<<>>), keyIdeas |-> JArr(<<>>),
     suggestedStructure |-> JObj([chapters |-> JArr(<<>>), estimatedWordCount |-> JNum(0)]),
     characters |-> JArr(<<>>), locations |-> JArr(<<>>), items |-> JArr(<<>>),
     guidelines |-> <<>>,
     contextSummary |-> JStr(<<"No", "inputs", "provided.">>),
     wordCount |-> 0, sourceCount |-> 0]

\* the three chapters of the catch block
Skeleton ==
    JArr(<<JObj([number |-> JNum(1), title |-> JStr(<<"Introduction">>)]),
           JObj([number |-> JNum(2), title |-> JStr(<<"Development">>)]),
           JObj([number |-> JNum(3), title |-> JStr(<<"Conclusion">>)])>>)

\* the first n elements of s
Slice(s, n) == SubSeq(s, 1, IF Len(s) < n THEN Len(s) ELSE n)

\* the outline of the catch block, built from the guideline and note items
FallbackOutline(items) ==
    LET notes == ContentsOf(items, "note") IN
    [summary |-> JStr(<<"Synthesis", "failed.", "Using", "raw", "inputs.">>),
     themes |-> JArr(<<JStr(<<"Unable", "to", "fully", "synthesize">>)>>),
     keyIdeas |-> JArr(Slice(FilterSeq(notes, {n \in Range(notes) : n.s # <<>>}), 5)),
     suggestedStructure |-> JObj([chapters |-> Skeleton, estimatedWordCount |-> JNum(30000)]),
     characters |-> JArr(<<>>), locations |-> JArr(<<>>), items |-> JArr(<<>>),
     guidelines |-> ContentsOf(items, "guideline"),
     contextSummary |-> JObj([inputs |-> JNum(Len(items)), notes |-> JArr(notes)]),
     wordCount |-> TotalWordCount(items), sourceCount |-> Len(items)]

\* response.text.replace(/FENCEjson\s */g, ''): every json fence that is
\* followed by whitespace goes, with that whitespace (what the pattern leaves
\* of a longer run is trimmed later or lies between two other tokens)
RECURSIVE RemoveJsonFences(_)
RemoveJsonFences(text) ==
    IF text = <<>> THEN <<>>
    ELSE IF Head(text) = FenceJson /\ Len(text) >= 2 /\ text[2] = WS
         THEN RemoveJsonFences(Tail(Tail(text)))
         ELSE <<Head(text)>> \o RemoveJsonFences(Tail(text))

\* .replace(/FENCE\s*/g, ''): every fence goes with the whitespace after it;
\* of a json fence that is still there the word json stays
RECURSIVE RemoveFences(_)
RemoveFences(text) ==
    IF text = <<>> THEN <<>>
    ELSE IF Head(text) = Fence THEN RemoveFences(DropLeadingWS(Tail(text)))
    ELSE IF Head(text) = FenceJson THEN <<Prose>> \o RemoveFences(Tail(text))
    ELSE <<Head(text)>> \o RemoveFences(Tail(text))

\* cleanedResponse of synthesizeInputs
CleanResponse(text) == Trim(RemoveFences(RemoveJsonFences(text)))

\* a || b on a value already read
OrElse(v, default) == IF Truthy(v) THEN v ELSE default

\* [...v]: the elements of an array; a string spreads into its characters (kept
\* here as the string itself); any other value is not iterable
Spread(v) ==
    CASE v.type = "array"  -> Value(v.items)
      [] v.type = "string" -> Value(<<v>>)
      [] OTHER             -> TypeError

\* the object literal of the try block, evaluated on the parsed value: reading a
\* property of null throws, and so does spreading guidelines that are no list
ModelOutline(parsed, items) ==
    IF Get(parsed, "contextSummary").threw THEN TypeError
    ELSE LET field(name) == Get(parsed, name).v
             summary == OrElse(field("contextSummary"), JStr(<<"Synthesis", "complete.">>))
             guidelines == Spread(OrElse(field("guidelines"), JArr(<<>>)))
         IN IF guidelines.threw THEN TypeError
            ELSE Value(
                [summary |-> summary,
                 themes |-> OrElse(field("themes"), JArr(<<>>)),
                 keyIdeas |-> OrElse(field("keyIdeas"), JArr(<<>>)),
                 suggestedStructure |-> OrElse(field("suggestedStructure"),
                     JObj([chapters |-> JArr(<<>>), estimatedWordCount |-> JNum(0)])),
                 characters |-> OrElse(field("characters"), JArr(<<>>)),
                 locations |-> OrElse(field("locations"), JArr(<<>>)),
                 items |-> OrElse(field("items"), JArr(<<>>)),
                 guidelines |-> guidelines.v \o ContentsOf(items, "guideline"),
                 contextSummary |-> summary,
                 wordCount |-> TotalWordCount(items), sourceCount |-> Len(items)])

\* the frame of a synthesizeInputs call: calls counts its generateWithBestModel calls
IdleSynth == [pc |-> "idle", items |-> <<>>, calls |-> 0, result |-> EmptyOutline]

\* entry of synthesizeInputs up to its await, without the test of items.length
Enter_NoEmptyTest(items) ==
    [pc |-> "awaiting", items |-> items, calls |-> 1, result |-> EmptyOutline]

\* entry of synthesizeInputs up to its await
Enter(items) ==
    IF Len(items) = 0
    THEN [pc |-> "resolved", items |-> items, calls |-> 0, result |-> EmptyOutline]
    ELSE [pc |-> "awaiting", items |-> items, calls |-> 1, result |-> EmptyOutline]

\* synthesizeInputs without its catch block
AfterGeneration_NoCatch(S, c) ==
    LET parsed == IF c.st = "resolved" THEN JSONParse(CleanResponse(c.text)) ELSE TypeError
        outline == IF parsed.threw THEN TypeError ELSE ModelOutline(parsed.v, S.items)
    IN IF outline.threw THEN [S EXCEPT !.pc = "rejected"]
       ELSE [S EXCEPT !.pc = "resolved", !.result = outline.v]

\* synthesizeInputs from the settled generateWithBestModel call to its return
AfterGeneration(S, c) ==
    LET parsed == IF c.st = "resolved" THEN JSONParse(CleanResponse(c.text)) ELSE TypeError
        outline == IF parsed.threw THEN TypeError ELSE ModelOutline(parsed.v, S.items)
    IN IF outline.threw
       THEN [S EXCEPT !.pc = "resolved", !.result = FallbackOutline(S.items)]
       ELSE [S EXCEPT !.pc = "resolved", !.result = outline.v]

\* the frame of a safeParseJSON call
IdleParse == [st |-> "idle", text |-> <<>>, fallback |-> JUndefined, result |-> JUndefined]

(***************************************************************************)
(* App component: the project's block list and its handlers                *)
(***************************************************************************)

\* most blocks of the explored documents
MaxBlocks == 2

\* ids generateId can return
BlockIds == 1..(2 * MaxBlocks + MaxTasks)

\* generateId: an id no block of the document or of a closure carries
generateId(h) ==
    CHOOSE id \in BlockIds :
        /\ \A i \in DOMAIN h.blocks : h.blocks[i].id # id
        /\ \A i \in DOMAIN h.activeProject : h.activeProject[i].id # id
        /\ \A smaller \in 1..(id - 1) :
              \/ \E i \in DOMAIN h.blocks : h.blocks[i].id = smaller
              \/ \E i \in DOMAIN h.activeProject : h.activeProject[i].id = smaller

\* blocks: projects[activeProjectId].blocks in the component's state;
\* activeProject: the blocks of the activeProject the run handler closed over;
\* newBlocks: what the last run returned to the handler
IdleHost ==
    [isGenerating |-> FALSE, handler |-> "none", blocks |-> <<>>,
     activeProject |-> <<>>, newBlocks |-> <<>>]

\* handleSendMessage and handleGenerateFromBlueprint up to their await: the
\* handler keeps the activeProject of the render it was created in
BeginGeneration(h, handler) ==
    [h EXCEPT !.isGenerating = TRUE, !.handler = handler, !.activeProject = h.blocks,
              !.newBlocks = <<>>]

\* the drafts of a run as the handler stores them
blocksWithStatus(newBlocks) ==
    [i \in DOMAIN newBlocks |-> [newBlocks[i] EXCEPT !.status = "pending_review"]]

\* the handler after its await: updatedProject is built from the activeProject
\* it closed over, and replaces the project in the state; the closure ends
\* with the handler
MergeDrafts(h, newBlocks) ==
    [h EXCEPT !.isGenerating = FALSE, !.newBlocks = newBlocks, !.activeProject = <<>>,
              !.blocks = IF Len(newBlocks) > 0
                         THEN h.activeProject \o blocksWithStatus(newBlocks)
                         ELSE @]

handleUpdateBlock(h, blockId, content) ==
    [h EXCEPT !.blocks = [i \in DOMAIN h.blocks |->
                             IF h.blocks[i].id = blockId
                             THEN [h.blocks[i] EXCEPT !.content = content]
                             ELSE h.blocks[i]]]

handleRemoveBlock(h, blockId) ==
    [h EXCEPT !.blocks = SelectSeq(h.blocks, LAMBDA b : b.id # blockId)]

handleAddBlock(h) ==
    [h EXCEPT !.blocks = Append(h.blocks,
                                [id |-> generateId(h), content |-> "New text block...",
                                 status |-> "draft"])]

handleApproveBlock(h, blockId) ==
    [h EXCEPT !.blocks = [i \in DOMAIN h.blocks |->
                             IF h.blocks[i].id = blockId
                             THEN [h.blocks[i] EXCEPT !.status = "approved"]
                             ELSE h.blocks[i]]]

(***************************************************************************)
(* Startup: module evaluation of providers/index.ts                        *)
(***************************************************************************)

NoSelection == [done |-> FALSE, task |-> "planning", available |-> <<>>, model |-> 0]

InitRegistry ==
    /\ env \in [ModelProvider -> Credentials]
    /\ loaded = 0
    /\ apiKey = [v \in ModelProvider |-> "null"]
    /\ providerInstances = <<>>
    /\ isAvailable = RegistryInitial
    /\ sel = NoSelection
    /\ behaviour = [v \in ModelProvider |-> "any"]
    /\ call = IdleCall
    /\ run = IdleRun
    /\ synth = IdleSynth
    /\ parse = IdleParse
    /\ adapter = IdleAdapter
    /\ runs = <<IdleRun, IdleRun>>
    /\ host = IdleHost

\* evaluating the next adapter module: new XProvider(); registerProvider(it)
LoadProvider ==
    /\ loaded < Len(ImportOrder)
    /\ LET v == ImportOrder[loaded + 1] IN
        /\ apiKey' = [apiKey EXCEPT ![v] = ConstructorKey(v, env[v])]
        /\ isAvailable' = IF ConstructorMarksAvailable(v, env[v])
                          THEN updateModelAvailability(isAvailable, v, TRUE)
                          ELSE isAvailable
        /\ providerInstances' = DedupInto(providerInstances, <<v>>)
    /\ loaded' = loaded + 1
    /\ UNCHANGED <<env, sel, behaviour, call, run, synth, parse, adapter, runs, host>>

Started == loaded = Len(ImportOrder)

\* a caller asks the router for the best model of a task, as generateWithBestModel does
SelectBest ==
    /\ Started
    /\ \E t \in TaskType :
        LET available == getAvailableProviders(providerInstances, apiKey) IN
        sel' = [done |-> TRUE, task |-> t, available |-> available,
                model |-> selectBestModel(isAvailable, t, available)]
    /\ UNCHANGED <<registryVars, behaviour, call, run, synth, parse, adapter, runs, host>>

NextRegistry == LoadProvider \/ SelectBest

SpecRegistry == InitRegistry /\ [][NextRegistry]_vars

(***************************************************************************)
(* A host issuing one generation call after startup                        *)
(***************************************************************************)

\* the adapters' fields once every module of ImportOrder is evaluated
KeysAfterStartup(e) == [v \in ModelProvider |-> ConstructorKey(v, e[v])]

\* MODEL_REGISTRY flags once the constructors of list have run
RECURSIVE FlagsAfterStartup(_, _, _)
FlagsAfterStartup(avail, list, e) ==
    IF list = <<>> THEN avail
    ELSE FlagsAfterStartup(
            IF ConstructorMarksAvailable(Head(list), e[Head(list)])
            THEN updateModelAvailability(avail, Head(list), TRUE) ELSE avail,
            Tail(list), e)

Configured(e) == {v \in ModelProvider : isConfigured(v, ConstructorKey(v, e[v]))}

\* largest number of configured vendors in the environments explored
MaxConfigured == 2

\* vendors answer freely, or exactly one configured vendor always succeeds
\* while every other one always throws
Behaviours(e) ==
    {[v \in ModelProvider |-> "any"]}
    \cup {[v \in ModelProvider |-> IF v = w THEN "ok"
                                   ELSE IF v \in Configured(e) THEN "throw" ELSE "any"]
          : w \in Configured(e)}

InitStarted(environments) ==
    /\ env \in environments
    /\ loaded = Len(ImportOrder)
    /\ apiKey = KeysAfterStartup(env)
    /\ providerInstances = ImportOrder
    /\ isAvailable = FlagsAfterStartup(RegistryInitial, ImportOrder, env)
    /\ sel = NoSelection
    /\ behaviour \in Behaviours(env)

\* the environments a call is explored in: each vendor's key present or absent
\* (startup leaves a vendor with a placeholder key as it leaves one of these
\* two; SpecRegistry runs the startup over all three kinds)
GenEnvironments ==
    {e \in [ModelProvider -> {"absent", "key"}] : Cardinality(Configured(e)) <= MaxConfigured}

InitGen ==
    /\ InitStarted(GenEnvironments)
    /\ call = IdleCall
    /\ run = IdleRun
    /\ synth = IdleSynth
    /\ parse = IdleParse
    /\ adapter = IdleAdapter
    /\ runs = <<IdleRun, IdleRun>>
    /\ host = IdleHost

\* the preferredProviders arguments the repository passes to generateWithFallback
PreferredLists ==
    {<<"deepseek", "gemini", "mistral">>, <<"gemini", "groq", "mistral">>,
     <<"mistral", "deepseek", "gemini", "groq">>, <<"groq", "gemini", "deepseek">>,
     <<"gemini", "deepseek">>}

CallFallback ==
    /\ call.st = "idle"
    /\ \E preferredProviders \in PreferredLists :
        call' = StartFallback(preferredProviders, getAvailableProviders(providerInstances, apiKey))
    /\ UNCHANGED <<registryVars, sel, behaviour, run, synth, parse, adapter, runs, host>>

CallBest ==
    /\ call.st = "idle"
    /\ \E taskType \in TaskType, preferredProvider \in ModelProvider \cup {"none"} :
        call' = StartBest(isAvailable, taskType, preferredProvider,
                          getAvailableProviders(providerInstances, apiKey))
    /\ UNCHANGED <<registryVars, sel, behaviour, run, synth, parse, adapter, runs, host>>

AttemptReturns ==
    /\ call.st = "running"
    /\ \E r \in Responses(call.order[call.idx], PlainTexts) : call' = AttemptSettles(call, r)
    /\ UNCHANGED <<registryVars, sel, behaviour, run, synth, parse, adapter, runs, host>>

TimerFires ==
    /\ call.st = "backoff"
    /\ call' = BackoffElapses(call)
    /\ UNCHANGED <<registryVars, sel, behaviour, run, synth, parse, adapter, runs, host>>

NextGen == CallFallback \/ CallBest \/ AttemptReturns \/ TimerFires

SpecGen == InitGen /\ [][NextGen]_vars

(***************************************************************************)
(* A host issuing one workflow run after startup                           *)
(***************************************************************************)

\* the environments of the explored runs: no vendor configured, or one of the
\* two vendors every agent of the run prefers or falls back to (calls over
\* several configured vendors are explored by SpecGen)
WorkflowEnvironments ==
    {e \in [ModelProvider -> {"absent", "key"}] :
        Configured(e) \in {{}, {"gemini"}, {"deepseek"}}}

InitWorkflow ==
    /\ InitStarted(WorkflowEnvironments)
    /\ behaviour = [v \in ModelProvider |-> "any"]
    /\ call = IdleCall
    /\ run = IdleRun
    /\ synth = IdleSynth
    /\ parse = IdleParse
    /\ adapter = IdleAdapter
    /\ runs = <<IdleRun, IdleRun>>
    /\ host = IdleHost

\* the host calls runMultiAgentWorkflow(userRequest, project, onLog)
StartRun ==
    /\ run.pc = "idle"
    /\ \E project \in Projects : run' = Begin(project)
    /\ UNCHANGED <<registryVars, sel, behaviour, call, synth, parse, adapter, runs, host>>

\* the calls a run can issue for the agent of slot in the explored environments
RunCalls(slot) ==
    {StartFallback(PreferredOf(slot), getAvailableProviders(ImportOrder, KeysAfterStartup(e))) :
        e \in WorkflowEnvironments}

\* the outcomes of each of them, worked out once (the comparison makes the
\* table a value that is built a single time)
SettledCalls ==
    LET table == [slot \in Slots |-> [c \in RunCalls(slot) |-> Outcomes(c, TextsOf(slot))]]
    IN IF table = table THEN table ELSE table

\* the generateWithFallback call of slot settles and the run resumes if it can
CallSettles(slot) ==
    /\ run.calls[slot].st = "running"
    /\ \E f \in SettledCalls[slot][run.calls[slot]] :
          run' = Resume([run EXCEPT !.calls[slot] = f], slot)
    /\ UNCHANGED <<registryVars, sel, behaviour, call, synth, parse, adapter, runs, host>>

ArchitectSettles   == CallSettles("architect")
VisionarySettles   == CallSettles("visionary")
WriterSettles      == CallSettles("writer")
CriticSettles      == CallSettles("critic")
ConsistencySettles == CallSettles("consistency")

NextWorkflow ==
    \/ StartRun
    \/ ArchitectSettles
    \/ VisionarySettles
    \/ WriterSettles
    \/ CriticSettles
    \/ ConsistencySettles

SpecWorkflow == InitWorkflow /\ [][NextWorkflow]_vars

(***************************************************************************)
(* A host issuing one synthesis after startup                              *)
(***************************************************************************)

\* an outline as the prompt asks for it, with counts of its own
OutlineDoc ==
    JObj([themes |-> JArr(<<JStr(<<"loss">>)>>),
          suggestedStructure |->
              JObj([chapters |-> JArr(<<JObj([number |-> JNum(1), title |-> JStr(<<"Arrival">>)])>>)]),
          guidelines |-> JArr(<<JStr(<<"short", "chapters">>)>>),
          contextSummary |-> JStr(<<"A", "story">>),
          wordCount |-> JNum(7), sourceCount |-> JNum(99)])

\* JSON documents a vendor may answer the synthesis prompt with
SynthesisDocs == {OutlineDoc, JObj([guidelines |-> JNum(5)]), JNull, JNum(7)}

\* texts the vendors return to the synthesis call
SynthesisTexts ==
    {<<>>, <<Prose>>}
    \cup {Bare(d) : d \in SynthesisDocs}
    \cup {Fenced(d) : d \in SynthesisDocs}
    \cup {<<FenceJson, Doc(OutlineDoc), Fence>>,
          <<Prose, WS, FenceJson, WS, Doc(OutlineDoc), WS, Fence, WS>>}

InitSynth ==
    /\ InitStarted(GenEnvironments)
    /\ call = IdleCall
    /\ run = IdleRun
    /\ synth = IdleSynth
    /\ parse = IdleParse
    /\ adapter = IdleAdapter
    /\ runs = <<IdleRun, IdleRun>>
    /\ host = IdleHost

\* handleSynthesize of the host: synthesizeInputs(items) runs to its await or its return
Synthesize ==
    /\ synth.pc = "idle"
    /\ \E items \in ItemLists :
        /\ synth' = Enter(items)
        /\ call' = IF synth'.pc = "awaiting"
                   THEN StartBest(isAvailable, "synthesis", "none",
                                  getAvailableProviders(providerInstances, apiKey))
                   ELSE call
    /\ UNCHANGED <<registryVars, sel, behaviour, run, parse, adapter, runs, host>>

\* the generateText awaited inside generateWithBestModel settles
SynthesisReturns ==
    /\ synth.pc = "awaiting"
    /\ call.st = "running"
    /\ \E r \in Responses(call.order[call.idx], SynthesisTexts) : call' = AttemptSettles(call, r)
    /\ UNCHANGED <<registryVars, sel, behaviour, run, synth, parse, adapter, runs, host>>

\* synthesizeInputs resumes after its await
SynthesisResumes ==
    /\ synth.pc = "awaiting"
    /\ Finished(call)
    /\ synth' = AfterGeneration(synth, call)
    /\ UNCHANGED <<registryVars, sel, behaviour, call, run, parse, adapter, runs, host>>

NextSynth == Synthesize \/ SynthesisReturns \/ SynthesisResumes

SpecSynth == InitSynth /\ [][NextSynth]_vars

(***************************************************************************)
(* A caller handing one model text to safeParseJSON                        *)
(***************************************************************************)

\* JSON documents in a model text
ParserDocs == {JObj([tasks |-> JArr(<<ChapterTask>>)]), JObj([content |-> JStr(<<"Rain">>)]), JNull}

\* the fallback objects of the callers
ParserFallbacks == {JObj([tasks |-> JArr(<<>>)]), JObj([content |-> JStr(<<>>)])}

\* model texts: whitespace, an opening fence, a body, a closing fence and
\* whitespace, each of them there or not
ParserTexts ==
    {lead \o open \o body \o close \o trail :
        lead \in {<<>>, <<WS>>},
        open \in {<<>>, <<FenceJson>>, <<FenceJson, WS>>, <<Fence>>, <<Fence, WS>>},
        body \in {<<>>, <<Prose>>} \cup {<<Doc(d)>> : d \in ParserDocs},
        close \in {<<>>, <<Fence>>, <<WS, Fence>>},
        trail \in {<<>>, <<WS>>}}

InitParse ==
    /\ InitStarted({[v \in ModelProvider |-> "absent"]})
    /\ call = IdleCall
    /\ run = IdleRun
    /\ synth = IdleSynth
    /\ parse = IdleParse
    /\ adapter = IdleAdapter
    /\ runs = <<IdleRun, IdleRun>>
    /\ host = IdleHost

\* safeParseJSON(text, fallback) is called and returns
ParseText ==
    /\ parse.st = "idle"
    /\ \E text \in ParserTexts, fallback \in ParserFallbacks :
        parse' = [st |-> "returned", text |-> text, fallback |-> fallback,
                  result |-> safeParseJSON(text, fallback)]
    /\ UNCHANGED <<registryVars, sel, behaviour, call, run, synth, adapter, runs, host>>

NextParse == ParseText

SpecParse == InitParse /\ [][NextParse]_vars

(***************************************************************************)
(* A caller of one adapter's generateText after startup                    *)
(***************************************************************************)

InitAdapter ==
    /\ InitStarted(GenEnvironments)
    /\ behaviour = [v \in ModelProvider |-> "any"]
    /\ call = IdleCall
    /\ run = IdleRun
    /\ synth = IdleSynth
    /\ parse = IdleParse
    /\ adapter = IdleAdapter
    /\ runs = <<IdleRun, IdleRun>>
    /\ host = IdleHost

\* provider.generateText(prompt, options) is called on the adapter of a vendor
CallGenerateText ==
    /\ adapter.st = "idle"
    /\ \E v \in ModelProvider : adapter' = EnterGenerateText(adapter, v, apiKey[v])
    /\ UNCHANGED <<registryVars, sel, behaviour, call, run, synth, parse, runs, host>>

\* the awaited request settles
ResponseArrives ==
    /\ adapter.st = "fetching"
    /\ \E r \in HttpResponses : adapter' = ResponseSettles(adapter, r)
    /\ UNCHANGED <<registryVars, sel, behaviour, call, run, synth, parse, runs, host>>

\* the timer of the Hugging Face adapter fires
RetryTimerFires ==
    /\ adapter.st = "waiting"
    /\ adapter.requests < MaxRequests
    /\ adapter' = DelayElapses(adapter, apiKey[adapter.vendor])
    /\ UNCHANGED <<registryVars, sel, behaviour, call, run, synth, parse, runs, host>>

NextAdapter == CallGenerateText \/ ResponseArrives \/ RetryTimerFires

SpecAdapter == InitAdapter /\ [][NextAdapter]_vars

(***************************************************************************)
(* A host with two workflow runs in flight                                 *)
(***************************************************************************)

\* the projects of the two runs: blueprints made of chapter sections
TwoRunProjects ==
    {p \in Projects : /\ p.hasBlueprint
                      /\ p.personaId = "standard_vibe"
                      /\ p.sections # <<>>
                      /\ \A i \in 1..Len(p.sections) : p.sections[i].type = "chapter"}

\* the texts the vendors answer the calls of the two runs with
TwoRunTexts ==
    {Bare(JObj([content |-> JStr(<<"Once">>), helper_script |-> JStr(<<"notes">>)])),
     Bare(JObj([content |-> JStr(<<>>)])),
     Bare(JObj([approved |-> JBool(TRUE)])),
     Bare(JObj([status |-> JStr(<<"pass">>)]))}

\* the outcomes a call of one of the two runs can settle with
TwoRunOutcomes(slot, c) ==
    {f \in SettledCalls[slot][c] : f.st = "rejected" \/ f.text \in TwoRunTexts}

\* a step of run r over a chapter counter that all calls share
StepOfRun_SharedCounter(rs, r, R) ==
    [i \in DOMAIN rs |-> IF i = r THEN R ELSE [rs[i] EXCEPT !.chapterNumber = R.chapterNumber]]

\* a step of run r that leaves its frame as R: newBlocks, chapterNumber and the
\* other locals of a call belong to that call alone
StepOfRun(rs, r, R) == [rs EXCEPT ![r] = R]

InitTwoRuns ==
    /\ InitStarted(WorkflowEnvironments)
    /\ behaviour = [v \in ModelProvider |-> "any"]
    /\ call = IdleCall
    /\ run = IdleRun
    /\ synth = IdleSynth
    /\ parse = IdleParse
    /\ adapter = IdleAdapter
    /\ runs = <<IdleRun, IdleRun>>
    /\ host = IdleHost

\* the project of the second run: a blueprint of two chapters
SecondProject ==
    [hasBlueprint |-> TRUE, personaId |-> "standard_vibe",
     sections |-> <<[type |-> "chapter", title |-> <<"Chapter", "one">>, description |-> <<"the", "storm">>],
                    [type |-> "chapter", title |-> <<"Chapter", "one">>, description |-> <<"the", "storm">>]>>]

\* the host calls runMultiAgentWorkflow for run r
RunStarts(r) ==
    /\ runs[r].pc = "idle"
    /\ \E project \in (IF r = 1 THEN TwoRunProjects ELSE {SecondProject}) :
          runs' = StepOfRun(runs, r, Begin(project))
    /\ UNCHANGED <<registryVars, sel, behaviour, call, run, synth, parse, adapter, host>>

\* a generateWithFallback call of run r settles and run r resumes if it can
RunCallSettles(r) ==
    /\ \E slot \in Slots :
          /\ runs[r].calls[slot].st = "running"
          /\ \E f \in TwoRunOutcomes(slot, runs[r].calls[slot]) :
                runs' = StepOfRun(runs, r, Resume([runs[r] EXCEPT !.calls[slot] = f], slot))
    /\ UNCHANGED <<registryVars, sel, behaviour, call, run, synth, parse, adapter, host>>

FirstRunStarts       == RunStarts(1)
SecondRunStarts      == RunStarts(2)
FirstRunCallSettles  == RunCallSettles(1)
SecondRunCallSettles == RunCallSettles(2)

NextTwoRuns ==
    \/ FirstRunStarts
    \/ SecondRunStarts
    \/ FirstRunCallSettles
    \/ SecondRunCallSettles

SpecTwoRuns == InitTwoRuns /\ [][NextTwoRuns]_vars

(***************************************************************************)
(* Host of the block handlers: the App component during and between runs   *)
(***************************************************************************)

RunHandlers == {"handleSendMessage", "handleGenerateFromBlueprint"}

\* what the user types into a block
EditedContents == {"edited"}

RECURSIVE ReturnedDrafts(_, _)
\* n drafts as runMultiAgentWorkflow returns them, each with an id of its own
ReturnedDrafts(h, n) ==
    IF n = 0 THEN <<>>
    ELSE LET rest == ReturnedDrafts(h, n - 1)
         IN  Append(rest, [id |-> generateId([h EXCEPT !.blocks = h.blocks \o rest]),
                           content |-> "generated", status |-> "undefined"])

InitHost ==
    /\ InitStarted({e \in WorkflowEnvironments : Configured(e) = {"gemini"}})
    /\ behaviour = [v \in ModelProvider |-> "any"]
    /\ call = IdleCall
    /\ run = IdleRun
    /\ synth = IdleSynth
    /\ parse = IdleParse
    /\ adapter = IdleAdapter
    /\ runs = <<IdleRun, IdleRun>>
    /\ host = IdleHost

\* the user sends a creation request or asks for the blueprint's chapters;
\* both controls are disabled while isGenerating
GenerationStarts ==
    /\ ~host.isGenerating
    /\ \E handler \in RunHandlers : host' = BeginGeneration(host, handler)
    /\ UNCHANGED <<registryVars, sel, behaviour, call, run, synth, parse, adapter, runs>>

\* runMultiAgentWorkflow resolves and the handler runs to its end
GenerationReturns ==
    /\ host.isGenerating
    /\ \E n \in 0..MaxTasks :
          /\ Len(host.activeProject) + n <= MaxBlocks
          /\ host' = MergeDrafts(host, ReturnedDrafts(host, n))
    /\ UNCHANGED <<registryVars, sel, behaviour, call, run, synth, parse, adapter, runs>>

\* the canvas is editable whether or not a run is in flight
UserEditsBlock ==
    /\ \E i \in DOMAIN host.blocks : \E content \in EditedContents :
          /\ host.blocks[i].content # content
          /\ host' = handleUpdateBlock(host, host.blocks[i].id, content)
    /\ UNCHANGED <<registryVars, sel, behaviour, call, run, synth, parse, adapter, runs>>

UserRemovesBlock ==
    /\ \E i \in DOMAIN host.blocks : host' = handleRemoveBlock(host, host.blocks[i].id)
    /\ UNCHANGED <<registryVars, sel, behaviour, call, run, synth, parse, adapter, runs>>

UserAddsBlock ==
    /\ Len(host.blocks) < MaxBlocks
    /\ host' = handleAddBlock(host)
    /\ UNCHANGED <<registryVars, sel, behaviour, call, run, synth, parse, adapter, runs>>

\* the review panel disables its Approve button while isGenerating
UserApprovesBlock ==
    /\ ~host.isGenerating
    /\ \E i \in DOMAIN host.blocks :
          /\ host.blocks[i].status # "approved"
          /\ host' = handleApproveBlock(host, host.blocks[i].id)
    /\ UNCHANGED <<registryVars, sel, behaviour, call, run, synth, parse, adapter, runs>>

NextHost ==
    \/ GenerationStarts
    \/ GenerationReturns
    \/ UserEditsBlock
    \/ UserRemovesBlock
    \/ UserAddsBlock
    \/ UserApprovesBlock

SpecHost == InitHost /\ [][NextHost]_vars

(***************************************************************************)
(* Properties                                                              *)
(***************************************************************************)

\* attempts of a call begun so far: those settled and the one awaited
AttemptsMade(c) == Len(c.attempts) + (IF c.st = "running" THEN 1 ELSE 0)

\* vendor w always succeeds and every other configured vendor always throws
OnlyWorkingVendor(w) ==
    /\ w \in Range(Available)
    /\ behaviour[w] = "ok"
    /\ \A v \in Range(Available) \ {w} : behaviour[v] = "throw"

Last(s) == s[Len(s)]

\* C1: with N configured vendors of which the first N-1 of the facade's order
\* always throw and the last always succeeds, a finished generateWithBestModel
\* call that selected a vendor has resolved with the text of the working
\* vendor after 2*(N-1)+1 attempts.
C1_BestModelFallsBackToWorkingVendor ==
    \A w \in ModelProvider :
        ( /\ call.fn = "best"
          /\ Finished(call)
          /\ call.order # <<>>
          /\ OnlyWorkingVendor(w)
          /\ w = Last(TryOrder(call.order, Available)) )
        => /\ call.st = "resolved"
           /\ call.provider = w
           /\ NonBlank(call.text)
           /\ Len(call.attempts) = 2 * (Len(Available) - 1) + 1

\* C2: with no configured vendor a started generation call is rejected with
\* the no-providers error and no generateText attempt was or is being made.
C2_NoProvidersRejectsWithoutAttempt ==
    (call.st # "idle" /\ Available = <<>>)
        => /\ call.st = "rejected"
           /\ call.error = "NoProviders"
           /\ AttemptsMade(call) = 0

C2_Witness ==
    /\ call.fn = "best"
    /\ call.st = "rejected"
    /\ call.error = "NoProviders"
    /\ Available = <<>>

\* C3: selectBestModel returns a model exactly when the list of configured
\* vendors it is given is non-empty.
C3_SelectsModelIffVendorAvailable ==
    sel.done => ((sel.model # 0) <=> (sel.available # <<>>))

\* position of x in the sequence s, 0 when absent
IndexOf(s, x) == IF Includes(s, x) THEN CHOOSE i \in 1..Len(s) : s[i] = x ELSE 0

\* the entries of list that are configured
ConfiguredIn(list) == {list[i] : i \in 1..Len(list)} \cap Range(Available)

\* the try order lists every configured vendor exactly once, the configured
\* preferred vendors first in their declared order, the others after them in
\* registry order
TryOrderAsDeclared(c) ==
    /\ Range(c.order) = Range(Available)
    /\ Len(c.order) = Len(Available)
    /\ \A i, j \in 1..Len(c.order) :
          i < j =>
            LET a == c.order[i]
                b == c.order[j]
            IN IF a \in Range(c.preferred) /\ b \in Range(c.preferred)
               THEN IndexOf(c.preferred, a) < IndexOf(c.preferred, b)
               ELSE IF a \notin Range(c.preferred) /\ b \notin Range(c.preferred)
               THEN IndexOf(Available, a) < IndexOf(Available, b)
               ELSE a \in Range(c.preferred)

\* the k-th attempt of a fallback call is made on the vendor at position
\* (k+1) \div 2 of the try order
AttemptsFollowOrder(c) ==
    /\ \A k \in 1..Len(c.attempts) : c.attempts[k].provider = c.order[(k + 1) \div 2]
    /\ c.st \in {"running", "backoff"} => c.idx = (AttemptsMade(c) + 1) \div 2

\* the vendor a call tries first
FirstTried(c) == c.order[1]

EntriesSaying(R, message) == {i \in 1..Len(R.logs) : R.logs[i].message = message}

\* the positions of the failed-status log entries of R
FailedEntries(R) == {i \in 1..Len(R.logs) : R.logs[i].status = "failed"}

\* the run was cut short by the catch block: its last entry is the failure
\* entry of the project manager
Aborted(R) ==
    /\ R.logs # <<>>
    /\ Last(R.logs) = [agent |-> "PROJECT_MANAGER", message |-> "Workflow encountered an error.",
                       status |-> "failed"]

IsWriterTask(task) == task.type = "object" /\ Get(task, "role").v = JStr(<<"WRITER">>)

\* C5: a finished run over two writer tasks of which the first produced empty
\* content and the second valid content returns exactly one draft, that of
\* the second task, and its observer got exactly one failed-status entry.
C5_OneDraftOneFailureEntry ==
    ( /\ run.pc = "done"
      /\ Len(run.plan) = 2
      /\ IsWriterTask(run.plan[1]) /\ IsWriterTask(run.plan[2])
      /\ Cardinality(EntriesSaying(run, "Failed to generate content.")) = 1
      /\ Cardinality(EntriesSaying(run, "Drafting content complete.")) = 1
      /\ \A i \in EntriesSaying(run, "Failed to generate content.") :
            \A j \in EntriesSaying(run, "Drafting content complete.") : i < j )
    => /\ Len(run.newBlocks) = 1
       /\ run.newBlocks[1].task = 2
       /\ run.newBlocks[1].content = run.contentStr
       /\ Cardinality(FailedEntries(run)) = 1

\* the writer call of the current task got blank text from every attempt on
\* every vendor: it failed without a single vendor error
BlankWriterCall(R) ==
    /\ R.calls["writer"].st = "rejected"
    /\ R.calls["writer"].error = "AllFailed"
    /\ R.calls["writer"].errors = <<>>

\* C6: when every attempt of a task's writer call returns blank text, the run
\* is not cut short: the loop goes on over the remaining tasks to the end of
\* the plan.
C6_BlankTextSkipsOnlyTheTask ==
    (run.pc = "done" /\ BlankWriterCall(run))
        => /\ run.taskIndex > Len(run.plan)
           /\ ~Aborted(run)

\* C7: every content a writer call produced is in the returned drafts: a
\* finished run has one draft per produced content, the last of them holding
\* the content produced last, whatever the validation calls did.
C7_ProducedContentIsReturned ==
    run.pc = "done"
        => /\ Len(run.newBlocks) = Cardinality(EntriesSaying(run, "Drafting content complete."))
           /\ run.newBlocks # <<>> => Last(run.newBlocks).content = run.contentStr

\* s is an initial segment of t
IsPrefix(s, t) == Len(s) <= Len(t) /\ \A i \in 1..Len(s) : s[i] = t[i]

\* the run was cut short while in its execution loop
AbortedInExecution(R) == Aborted(R) /\ R.taskIndex >= 1

\* the tasks of R whose validation was completed and logged
ValidatedTasks(R) ==
    {i \in 1..Len(R.logs) : R.logs[i].agent = "CONSISTENCY_CHECKER" /\ R.logs[i].status # "thinking"}

\* C8: when a step of the loop raises at task k the run has returned, its
\* drafts are those of the tasks validated before k, in plan order, no task
\* after k was started, and no draft is ever taken back.
C8_AbortKeepsEarlierDrafts ==
    /\ [](AbortedInExecution(run) =>
            /\ run.pc = "done"
            /\ Len(run.newBlocks) = Cardinality(ValidatedTasks(run))
            /\ \A i \in 1..Len(run.newBlocks) :
                  /\ run.newBlocks[i].task < run.taskIndex
                  /\ \A j \in 1..(i - 1) : run.newBlocks[j].task < run.newBlocks[i].task
            /\ Cardinality(EntriesSaying(run, "Executing")) <= run.taskIndex)
    /\ [][ /\ IsPrefix(run.newBlocks, run'.newBlocks)
           /\ run.pc = "done" => (run'.newBlocks = run.newBlocks /\ run'.logs = run.logs) ]_vars

\* the writer call of the second task failed after the first task's draft was appended
C8_Witness ==
    /\ AbortedInExecution(run)
    /\ run.taskIndex = 2
    /\ Len(run.plan) = 2
    /\ run.calls["writer"].st = "rejected"
    /\ Len(run.newBlocks) = 1
    /\ run.newBlocks[1].task = 1

\* the task list a plan text yields: safeParseJSON, then plan.tasks when it is an array
TasksOf(text) ==
    LET tasks == Get(safeParseJSON(text, JObj([tasks |-> JArr(<<>>)])), "tasks")
    IN IF ~tasks.threw /\ tasks.v.type = "array" THEN tasks.v.items ELSE <<>>

\* C9: when the visionary call has failed on every vendor and the architect
\* call has resolved with a non-empty task list, the run goes on to execute
\* the plan with an empty style context.
C9_StyleFailureIsNotFatal ==
    [][ ( /\ run.pc = "planning"
          /\ run.calls["architect"].st = "resolved"
          /\ TasksOf(run.calls["architect"].text) # <<>>
          /\ run.calls["visionary"].st = "running"
          /\ run'.calls["visionary"].st = "rejected"
          /\ run'.calls["visionary"].error = "AllFailed" )
        => /\ ~Aborted(run')
           /\ run'.taskIndex >= 1
           /\ run'.styleContext = "" ]_vars

\* C10: a dynamically planned run whose planning is over without tasks has
\* failed: it never entered execution, it logged a failed entry and no
\* plan-created entry, and it returns no drafts.
C10_NoTasksFailsTheRun ==
    (~run.project.hasBlueprint /\ run.pc = "done" /\ run.plan = <<>>)
        => /\ run.taskIndex = 0
           /\ FailedEntries(run) # {}
           /\ EntriesSaying(run, "Plan created") = {}
           /\ run.newBlocks = <<>>

\* the sections of a blueprint that are chapters, in blueprint order
ChaptersOf(sections) ==
    LET IsChapterSection(sec) == sec.type = "chapter" IN SelectSeq(sections, IsChapterSection)

\* C11: a run given a blueprint has as its plan one writer task per chapter
\* section, in the order of the chapters, and issues neither the architect
\* nor the visionary call: its first generation call is a writer call.
C11_BlueprintPlanWithoutPlanningCalls ==
    (run.pc # "idle" /\ run.project.hasBlueprint)
        => LET chapters == ChaptersOf(run.project.sections) IN
           /\ Len(run.plan) = Len(chapters)
           /\ \A i \in 1..Len(chapters) :
                 /\ IsWriterTask(run.plan[i])
                 /\ Get(run.plan[i], "title").v = JStr(chapters[i].title)
           /\ run.calls["architect"] = IdleCall
           /\ run.calls["visionary"] = IdleCall
           /\ \A slot \in {"critic", "consistency"} :
                 run.calls[slot].fn # "none" => run.calls["writer"].fn # "none"

\* a blueprint of a scene followed by a chapter: the run is in the writer call
\* of its only task
C11_Witness ==
    /\ run.project.hasBlueprint
    /\ Len(run.project.sections) = 2
    /\ run.project.sections[1].type = "scene"
    /\ run.project.sections[2].type = "chapter"
    /\ Len(run.plan) = 1
    /\ run.taskIndex = 1
    /\ run.calls["writer"].st = "running"

\* the drafts among the first i of a list that are classified as chapters
ChapterDraftsUpTo(blocks, i) == {j \in 1..i : blocks[j].type = "chapter"}

\* C12: in the draft list of a run the chapter drafts are numbered 1, 2, ...
\* in output order, and the other drafts carry no chapter number.
C12_ChapterNumbersAreSequential ==
    \A i \in 1..Len(run.newBlocks) :
        IF run.newBlocks[i].type = "chapter"
        THEN run.newBlocks[i].chapterNumber = Cardinality(ChapterDraftsUpTo(run.newBlocks, i))
        ELSE run.newBlocks[i].chapterNumber = 0

\* a draft that is no chapter, followed by the first chapter of the run
C12_Witness ==
    /\ run.pc = "done"
    /\ Len(run.newBlocks) = 2
    /\ run.newBlocks[1].type = "text"
    /\ run.newBlocks[2].type = "chapter"
    /\ run.newBlocks[2].chapterNumber = 1

\* C13: a fallback call that has exhausted its try order has, in the errors
\* its aggregate error is made of, an entry with a message for every vendor
\* of the try order.
C13_AggregateErrorNamesEveryVendor ==
    (call.fn = "fallback" /\ call.st = "rejected" /\ call.error = "AllFailed")
        => \A i \in 1..Len(call.order) :
              \E k \in 1..Len(call.errors) :
                 /\ call.errors[k].provider = call.order[i]
                 /\ call.errors[k].msg # <<>>

\* C14: every draft of a run has non-empty content, and a draft is appended
\* only for the task in hand and only with the non-empty content its writer
\* call produced, so a task that produced none adds no draft.
C14_DraftsHaveContent ==
    /\ [](\A i \in 1..Len(run.newBlocks) : run.newBlocks[i].content # <<>>)
    /\ [][ Len(run'.newBlocks) > Len(run.newBlocks)
             => /\ run.pc = "validating"
                /\ run.contentStr # <<>>
                /\ run'.newBlocks = Append(run.newBlocks, Last(run'.newBlocks))
                /\ Last(run'.newBlocks).content = run.contentStr
                /\ Last(run'.newBlocks).task = run.taskIndex ]_vars

\* a run that skipped its first task for empty content and returned the draft
\* of its second
C14_Witness ==
    /\ run.pc = "done"
    /\ EntriesSaying(run, "Failed to generate content.") # {}
    /\ Len(run.newBlocks) = 1
    /\ run.newBlocks[1].task = 2
    /\ run.newBlocks[1].content # <<>>

\* C15: synthesizeInputs on an empty item list returns the explicit empty
\* outline (no sources, no words, no themes, no chapters) and makes no
\* generation call.
C15_EmptyInputsGiveEmptyOutlineWithoutCall ==
    (synth.pc # "idle" /\ synth.items = <<>>)
        => /\ synth.pc = "resolved"
           /\ synth.result.sourceCount = 0
           /\ synth.result.wordCount = 0
           /\ synth.result.themes = JArr(<<>>)
           /\ Get(synth.result.suggestedStructure, "chapters").v = JArr(<<>>)
           /\ synth.calls = 0
           /\ call = IdleCall

\* an empty synthesis has returned although a vendor was there to be called
C15_Witness ==
    /\ synth.pc = "resolved"
    /\ synth.items = <<>>
    /\ Len(getAvailableProviders(providerInstances, apiKey)) > 0

\* a synthesis of a non-empty item list has settled
SynthesisSettled == synth.pc \notin {"idle", "awaiting"} /\ synth.items # <<>>

\* what JSON.parse makes of the text the generation call resolved with
ParsedText(c) == JSONParse(CleanResponse(c.text))

\* the outline carries the three fixed chapters of the fallback
UsesSkeleton(o) ==
    /\ Get(o.suggestedStructure, "chapters").v = Skeleton
    /\ o.summary = JStr(<<"Synthesis", "failed.", "Using", "raw", "inputs.">>)

\* the outline is the model's: not the fallback, and with the model's themes
FollowsModel(o, parsed) ==
    /\ ~UsesSkeleton(o)
    /\ (parsed.type = "object" /\ "themes" \in DOMAIN parsed.fields)
           => o.themes = parsed.fields["themes"]

\* an outline can be built from the parsed value: it is not null, and its
\* guidelines, when it has any, are a list or a string
Buildable(parsed) ==
    /\ parsed.type # "null"
    /\ (parsed.type = "object" /\ "guidelines" \in DOMAIN parsed.fields
            /\ Truthy(parsed.fields["guidelines"]))
           => parsed.fields["guidelines"].type \in {"array", "string"}

\* one generation call was made, with at most one attempt
OneGenerationCall == synth.calls = 1 /\ call.fn = "best" /\ Len(call.attempts) <= 1

\* C16 as stated: for a non-empty item list synthesizeInputs makes exactly one
\* generation call and always resolves, with the model-derived outline when
\* the call succeeds and its text parses and with the fallback outline (the
\* fixed three chapters) otherwise; sourceCount is the number of items.
C16_OutlineFollowsModelWheneverTextParses ==
    SynthesisSettled
        => /\ synth.pc = "resolved"
           /\ OneGenerationCall
           /\ synth.result.sourceCount = Len(synth.items)
           /\ IF call.st = "resolved" /\ ~ParsedText(call).threw
              THEN FollowsModel(synth.result, ParsedText(call).v)
              ELSE UsesSkeleton(synth.result)

\* C16 amended: for a non-empty item list synthesizeInputs makes exactly one
\* generation call and always resolves, with the model-derived outline when
\* the call succeeds, its text parses and an outline can be built from the
\* parsed value (it is not null and its guidelines are a list or a string), and
\* with the fallback outline otherwise; sourceCount is the number of items.
C16_SynthesisAlwaysReturnsAnOutline ==
    SynthesisSettled
        => /\ synth.pc = "resolved"
           /\ OneGenerationCall
           /\ synth.result.sourceCount = Len(synth.items)
           /\ IF call.st = "resolved" /\ ~ParsedText(call).threw
                 /\ Buildable(ParsedText(call).v)
              THEN FollowsModel(synth.result, ParsedText(call).v)
              ELSE UsesSkeleton(synth.result)

\* the model's outline, claiming 99 sources, was returned for the items given
C16_Witness ==
    /\ SynthesisSettled
    /\ call.st = "resolved"
    /\ ~ParsedText(call).threw
    /\ ParsedText(call).v = OutlineDoc
    /\ synth.result.themes = OutlineDoc.fields["themes"]
    /\ synth.result.sourceCount = Len(synth.items)

\* the text is one JSON document, whitespace around it aside
BareJSON(text) == Len(Trim(text)) = 1 /\ Trim(text)[1].tok = "doc"

\* the text is one JSON document between an opening and a closing code fence,
\* whitespace around the fences and around the document aside
FencedJSON(text) ==
    LET t == Trim(text) IN
    /\ Len(t) >= 3
    /\ t[1] \in {FenceJson, Fence}
    /\ t[Len(t)] = Fence
    /\ BareJSON(SubSeq(t, 2, Len(t) - 1))

\* the value of the document in a text that holds exactly one
DocumentIn(text) == LET i == CHOOSE i \in 1..Len(text) : text[i].tok = "doc" IN text[i].json

\* the text is one JSON document with only one of the two fences
HalfFencedJSON(text) ==
    LET t == Trim(text) IN
    /\ Len(t) >= 2
    /\ ~FencedJSON(t)
    /\ \/ t[1] \in {FenceJson, Fence} /\ BareJSON(Tail(t))
       \/ t[Len(t)] = Fence /\ BareJSON(SubSeq(t, 1, Len(t) - 1))

\* C17: safeParseJSON returns exactly the parsed structure whenever the text
\* is valid JSON, bare or wrapped in a markdown code fence, and returns the
\* caller's fallback, without raising, whenever the text is empty or not
\* valid JSON (a document with only one of the two fences may count as either).
C17_ParserReturnsDocumentOrFallback ==
    parse.st # "idle"
        => /\ parse.st = "returned"
           /\ parse.result \in
                  IF BareJSON(parse.text) \/ FencedJSON(parse.text)
                  THEN {DocumentIn(parse.text)}
                  ELSE IF HalfFencedJSON(parse.text)
                  THEN {DocumentIn(parse.text), parse.fallback}
                  ELSE {parse.fallback}

\* attempts begun on vendor v: those settled and the one awaited
AttemptsOn(c, v) ==
    Cardinality({k \in 1..Len(c.attempts) : c.attempts[k].provider = v})
        + (IF c.st = "running" /\ c.order[c.idx] = v THEN 1 ELSE 0)

C19_BackoffOnlyBeforeTheRetry ==
    (call.fn = "fallback" /\ call.st = "backoff")
        => /\ call.attempt = 1
           /\ Last(call.attempts).outcome = "throw"
           /\ IsRateLimited(Last(call.errors).msg)

\* vendor v is among the vendors a selection was given and has a registry
\* entry flagged available
Qualifies(v) ==
    /\ Includes(sel.available, v)
    /\ \E i \in DOMAIN RegistryProvider : RegistryProvider[i] = v /\ isAvailable[i]

\* positions of list whose vendor qualifies
QualifyingIn(list) == {k \in 1..Len(list) : Qualifies(list[k])}

\* the earliest vendor of list that qualifies
FirstQualifying(list) ==
    list[CHOOSE k \in QualifyingIn(list) : \A j \in QualifyingIn(list) : k <= j]

\* C20: selectBestModel returns a flagged model of the first vendor of the
\* task's preference list that is among the available vendors and has a
\* flagged model; when no preference entry qualifies, a flagged model of the
\* first such vendor in the order of the available vendors; null only when
\* no available vendor has a flagged model.
C20_SelectionFollowsPreferenceThenAvailability ==
    sel.done =>
        LET priorityList == TASK_MODEL_PRIORITY[sel.task] IN
        IF QualifyingIn(priorityList) # {}
        THEN /\ sel.model # 0
             /\ isAvailable[sel.model]
             /\ RegistryProvider[sel.model] = FirstQualifying(priorityList)
        ELSE IF QualifyingIn(sel.available) # {}
        THEN /\ sel.model # 0
             /\ isAvailable[sel.model]
             /\ RegistryProvider[sel.model] = FirstQualifying(sel.available)
        ELSE sel.model = 0

\* a selection fell through the preference list and took the model of an
\* available vendor the list does not name
C20_Witness ==
    /\ sel.done
    /\ sel.model # 0
    /\ ~Includes(TASK_MODEL_PRIORITY[sel.task], RegistryProvider[sel.model])
    /\ QualifyingIn(TASK_MODEL_PRIORITY[sel.task]) = {}

\* the generation calls of the run that are in flight
InFlight(R) == {slot \in Slots : R.calls[slot].st \in {"running", "backoff"}}

\* C21: at most two generation calls of a run are in flight at any time, and
\* two only as the plan and style pair or the critique and consistency pair;
\* a writer call is in flight alone, and it is issued only in a step in which
\* no validation call is left running.
C21_OnlyFixedPairsInFlight ==
    /\ [](/\ Cardinality(InFlight(run)) <= 2
          /\ \/ InFlight(run) \subseteq {"architect", "visionary"}
             \/ InFlight(run) \subseteq {"critic", "consistency"}
             \/ InFlight(run) = {"writer"})
    /\ [][("writer" \in InFlight(run') /\ "writer" \notin InFlight(run))
            => /\ InFlight(run') = {"writer"}
               /\ run.pc = "validating" => Len(run'.newBlocks) = Len(run.newBlocks) + 1]_vars

\* the critique and consistency calls of the second task are in flight together
C21_Witness ==
    /\ run.pc = "validating"
    /\ run.taskIndex = 2
    /\ InFlight(run) = {"critic", "consistency"}
    /\ Len(run.newBlocks) = 1

\* C22: a generateText call that has met a non-success status or a transport
\* error has thrown to its caller, and no call sends a second request.
C22_FailureResponseIsThrownWithoutRetry ==
    /\ adapter.requests <= 1
    /\ adapter.response.kind \in {"status", "transport"} /\ adapter.st # "fetching"
          => adapter.st = "thrown"

\* C23: once every adapter is constructed and registered, the availability
\* flag of each registry entry equals isConfigured() of its vendor's adapter.
C23_FlagsMirrorConfiguration ==
    Started =>
        \A i \in DOMAIN RegistryProvider :
            isAvailable[i] = isConfigured(RegistryProvider[i], apiKey[RegistryProvider[i]])

\* C24: every draft of a run over a blueprint is classified as a chapter and
\* carries a chapter number, whatever the title and description of its section.
C24_BlueprintDraftsAreChapters ==
    run.project.hasBlueprint =>
        \A i \in 1..Len(run.newBlocks) :
            run.newBlocks[i].type = "chapter" /\ run.newBlocks[i].chapterNumber # 0

\* C25: a generation call that has succeeded returns non-blank text, and the
\* vendor it reports is the vendor whose attempt returned that text, which
\* is its last attempt.
C25_SuccessCarriesTextAndItsVendor ==
    call.st = "resolved"
        => /\ NonBlank(call.text)
           /\ Last(call.attempts).outcome = "text"
           /\ call.provider = Last(call.attempts).provider
           /\ call.used \in {call.provider, ModelUsed(call.provider)}

\* the other of the two runs
OtherRun(r) == 3 - r

\* the draft list of a run as the run produces it alone: chapters numbered
\* 1, 2, ... in output order, every draft with content, the tasks in plan order
DraftsAsAlone(R) ==
    \A i \in 1..Len(R.newBlocks) :
        /\ R.newBlocks[i].content # <<>>
        /\ R.newBlocks[i].task \in 1..Len(R.plan)
        /\ \A j \in 1..(i - 1) : R.newBlocks[j].task < R.newBlocks[i].task
        /\ IF IsChapter(R.plan[R.newBlocks[i].task]).v.b
           THEN /\ R.newBlocks[i].type = "chapter"
                /\ R.newBlocks[i].chapterNumber = Cardinality(ChapterDraftsUpTo(R.newBlocks, i))
           ELSE /\ R.newBlocks[i].type = "text"
                /\ R.newBlocks[i].chapterNumber = 0

\* C26: with two runs interleaved at their awaits, the draft list and chapter
\* numbers of each run are those the run produces alone, and a step of one
\* run leaves the counter and the draft list of the other as they were.
C26_RunsDoNotShareCounterOrDrafts ==
    /\ [](\A r \in {1, 2} : DraftsAsAlone(runs[r]))
    /\ [][\A r \in {1, 2} :
            runs'[r] # runs[r]
                => /\ runs'[OtherRun(r)].newBlocks = runs[OtherRun(r)].newBlocks
                   /\ runs'[OtherRun(r)].chapterNumber = runs[OtherRun(r)].chapterNumber]_vars

\* both runs have returned two chapters each, the second run having pushed
\* its first chapter before the first run pushed its last
C26_Witness ==
    /\ runs[1].pc = "done"
    /\ runs[2].pc = "done"
    /\ Len(runs[1].newBlocks) = 2
    /\ Len(runs[2].newBlocks) = 2
    /\ runs[1].newBlocks[2].chapterNumber = 2
    /\ runs[2].newBlocks[2].chapterNumber = 2

\* C27: when the handler merges a finished run's drafts, the project's block
\* list becomes the list it had at that moment followed by the new drafts, so
\* every block added, edited or removed during the run is kept.
C27_MergeKeepsChangesMadeDuringTheRun ==
    [][(host.isGenerating /\ ~host'.isGenerating /\ Len(host'.newBlocks) > 0)
          => host'.blocks = host.blocks \o blocksWithStatus(host'.newBlocks)]_vars

\* C28: once the promise of runMultiAgentWorkflow has settled, none of the
\* run's generation calls is still in flight; in particular the run does not
\* return while the other call of a failed concurrent pair is running.
C28_NoCallInFlightAfterReturn ==
    run.pc = "done" => InFlight(run) = {}

\* plan tasks that have contributed the drafts so far, in the order of the drafts
DraftTasks(R) == [i \in DOMAIN R.newBlocks |-> R.newBlocks[i].task]

\* the tasks whose loop body began in the step from R to R2
TasksBegun(R, R2) ==
    {t \in 1..Len(R2.plan) : R.taskIndex < t /\ t <= R2.taskIndex}

\* the entry the loop logs when it begins task t of R
ExecutingEntry(R, t) ==
    [agent |-> RoleName(Get(R.plan[t], "role").v), message |-> "Executing", status |-> "thinking"]

\* the drafts of R follow the plan: each is of a WRITER task, and they come
\* in plan order, no task twice
DraftsFollowPlan(R) ==
    /\ \A i \in DOMAIN R.newBlocks :
          /\ R.newBlocks[i].task \in 1..Len(R.plan)
          /\ IsWriterTask(R.plan[R.newBlocks[i].task])
    /\ \A i, j \in DOMAIN R.newBlocks : i < j => R.newBlocks[i].task < R.newBlocks[j].task

\* a writer, critic or consistency call of R is in flight only for a WRITER task
CallsOnlyForWriterTasks(R) ==
    \A slot \in {"writer", "critic", "consistency"} :
        slot \in InFlight(R)
            => /\ R.taskIndex \in 1..Len(R.plan)
               /\ IsWriterTask(R.plan[R.taskIndex])

\* C29: the drafts of a run are a subsequence of the plan's tasks in plan
\* order, each of a task whose role is exactly WRITER; no writer or validation
\* call is in flight for a task of another role; and a step that is not cut
\* short leaves of the tasks it begins one Executing entry each, as its last
\* entries, and a draft at most for the task it left.
C29_DraftsAreWriterTasksInPlanOrder ==
    /\ [](DraftsFollowPlan(run) /\ CallsOnlyForWriterTasks(run))
    /\ [][(run' # run /\ ~Aborted(run'))
            => LET begun == TasksBegun(run, run')
                   n == Cardinality(begun)
               IN /\ Cardinality(EntriesSaying(run', "Executing"))
                        = Cardinality(EntriesSaying(run, "Executing")) + n
                  /\ \A t \in begun :
                        run'.logs[Len(run'.logs) - (run'.taskIndex - t)
                                    + (IF run'.taskIndex > Len(run'.plan) THEN 1 ELSE 0)]
                            = ExecutingEntry(run', t)
                  /\ \A i \in DOMAIN run'.newBlocks :
                        i > Len(run.newBlocks) => run'.newBlocks[i].task = run.taskIndex]_vars

\* a finished run over a plan whose first task is not a writer's and whose
\* second is: one draft, of the second task, and both tasks were begun
C29_Witness ==
    /\ run.pc = "done"
    /\ ~Aborted(run)
    /\ Len(run.plan) = 2
    /\ ~IsWriterTask(run.plan[1])
    /\ IsWriterTask(run.plan[2])
    /\ Len(run.newBlocks) = 1
    /\ run.newBlocks[1].task = 2
    /\ Cardinality(EntriesSaying(run, "Executing")) = 2

\* the positions of the failed-status entries of the project manager
ManagerFailures(R) ==
    {i \in 1..Len(R.logs) : R.logs[i].agent = "PROJECT_MANAGER" /\ R.logs[i].status = "failed"}

\* R has returned before the end of its loop and not for want of a valid
\* plan: an exception cut it short
CutShort(R) ==
    /\ R.pc = "done"
    /\ \/ R.taskIndex \in 1..Len(R.plan)
       \/ R.taskIndex = 0 /\ EntriesSaying(R, "Failed to generate a valid plan.") = {}

====
